---------------------------- MODULE Spec2Model ----------------------------
(***************************************************************************)
(* Reconciliation of Apstra resources, design elements and blueprints     *)
(* (plugins/modules/resources.py, design.py, blueprint.py) against the    *)
(* remote REST inventory.                                                  *)
(*                                                                         *)
(* One call of a module is main() -> core(module) -> one kind function.   *)
(* The call touches the remote service at two points only: the GET of the *)
(* collection in core, and at most one POST or DELETE in the kind         *)
(* function.  A call is therefore two atomic steps: the fetch (core up to *)
(* the response) and the rest of core with the kind function.             *)
(***************************************************************************)
EXTENDS Integers, Sequences, FiniteSets, TLC

VARIABLES
    inv,        \* remote service: collection path -> sequence of entries
    nextId,     \* remote service: number of ids it has assigned so far
    pc,         \* per caller: "idle", "fetched" (core holds a 200 response), "done"
    params,     \* per caller: module.params of the call
    response,   \* per caller: the response of rest.get in core
    calls,      \* per caller: the remote calls issued by the call, in order
    mresponse,  \* per caller: the response of rest.post / rest.delete
    element,    \* per caller: the dict the scan of the kind function fills in
    outcome,    \* per caller: what exit_json / fail_json reported
    before,     \* per caller: the remote collections when the call began
    recap       \* the play: the finished tasks of a recorded play, in order

vars == <<inv, nextId, pc, params, response, calls, mresponse, element, outcome, before,
          recap>>

---------------------------------------------------------------------------
(* Bounds of the model *)

\* longest initial collection
MaxItems == 3

\* longest list of subnets a pool task declares
MaxSubnets == 2

\* a play starts no further task once the remote has created this many entries
MaxCreated == 2

\* longest collection of entries with look-alike names
MaxNear == 2

\* entries per collection when a call is followed to its end
MaxFair == 2

\* tasks of a recorded play
MaxTasks == 4

---------------------------------------------------------------------------
(* Values *)

\* Python's None: an option of the argument spec the task did not set
PyNone == "<None>"

Procs == {"p1", "p2"}

\* identity values a task declares and the remote holds (display_name, label)
Names == {"n1", "n2"}

\* ids the remote gave to the entries of the initial collections, by position
IdName(n) == <<"i1", "i2", "i3", "i4", "i5">>[n]

\* ids the remote assigns to created entries
NewId(n) == <<"c1", "c2", "c3", "c4", "c5", "c6">>[n]

\* two declarations of the attributes that are not the identity
Variants == {"v1", "v2"}

ResourceTypes == {"ip-pools", "ipv6-pools", "external-routers",
                  "asn-pools", "vlan-pools", "vni-pools"}

DesignTypes == {"logical-devices", "interface-maps", "rack-types", "templates"}

Kinds == ResourceTypes \cup DesignTypes \cup {"blueprints"}

\* a type resources.py does not dispatch on (the EXAMPLES write "ip-pool"),
\* and one design.py does not dispatch on
UnknownResourceTypes == {"ip-pool"}

UnknownDesignTypes == {"config-templates"}

AllTypes == Kinds \cup UnknownResourceTypes \cup UnknownDesignTypes

\* the module a type is declared to
ModuleOf(type) ==
    IF type \in ResourceTypes \cup UnknownResourceTypes THEN "resources"
    ELSE IF type \in DesignTypes \cup UnknownDesignTypes THEN "design"
    ELSE "blueprint"

\* mutant: every function sends its requests to the collection of IP pools
CollectionPath_ip_pools(type) == <<"resources", "ip-pools">>

\* the collection core fetches
CollectionPath(type) ==
    IF ModuleOf(type) = "resources" THEN <<"resources", type>>
    ELSE IF ModuleOf(type) = "design" THEN <<"design", type>>
    ELSE <<"blueprints">>

\* the remote service routes a request by its path: the collection a path
\* names (its second segment under resources/ and design/)
RouteOf(path) == IF path[1] = "blueprints" THEN "blueprints" ELSE path[2]


---------------------------------------------------------------------------
(* module.params: what a task declares *)

\* ident value of a templates task that sets no design_template at all
NoTemplate == "<no design_template>"

\* Python's None where the code subscripts a dict: it has no key, and
\* subscripting it raises TypeError
NoneDict == <<>>

Subscriptable(x) == DOMAIN x # {}

\* the identity values a task of a type can declare; PyNone: the option is unset
IdentsOf(type) ==
    IF type = "rack-types" THEN {IdName(1), IdName(2), PyNone}
    ELSE IF type = "templates" THEN Names \cup {PyNone, NoTemplate}
    ELSE Names \cup {PyNone}

Subnets(var) ==
    IF var = "v1" THEN <<"10.0.0.0/24", "10.0.1.0/24">> ELSE <<"100.1.1.0/24">>

Ranges(var) ==
    IF var = "v1" THEN <<[first |-> 65300, last |-> 65399], [first |-> 65500, last |-> 65599]>>
    ELSE <<[first |-> 100, last |-> 199]>>

\* module.params['tags'] of a task that declares no tags: the default of the
\* argument spec
UndeclaredTags == <<>>

Tags(var) == IF var = "v1" THEN UndeclaredTags ELSE <<"cicd">>

\* the option of a rack-types task that is not its id
RackLabel(var) == IF var = "v1" THEN "n1" ELSE "n2"

\* the design_template option of a templates task
DesignTemplate(ident, var) ==
    IF ident = NoTemplate THEN NoneDict
    ELSE [asn_allocation_policy     |-> <<"asn_allocation_policy", var>>,
          dhcp_service_intent       |-> <<"dhcp_service_intent", var>>,
          display_name              |-> ident,
          external_routing_policy   |-> <<"external_routing_policy", var>>,
          fabric_addressing_policy  |-> <<"fabric_addressing_policy", var>>,
          rack_type_counts          |-> <<"rack_type_counts", var>>,
          rack_types                |-> <<"rack_types", var>>,
          spine                     |-> <<"spine", var>>,
          type                      |-> "rack_based",
          id                        |-> <<"id", var>>,
          last_modified_at          |-> <<"last_modified_at", var>>,
          virtual_network_policy    |-> <<"virtual_network_policy", var>>]

\* module.params of a task of the given type, identity, state and attributes
ParamsFor(type, ident, state, var) ==
    [type              |-> type,
     state             |-> state,
     variant           |-> var,
     display_name      |-> IF type = "rack-types" THEN RackLabel(var)
                           ELSE IF type \in {"interface-maps", "templates", "blueprints"}
                                THEN PyNone
                           ELSE ident,
     label             |-> IF type = "rack-types" THEN RackLabel(var)
                           ELSE IF type \in {"interface-maps", "blueprints"} THEN ident
                           ELSE PyNone,
     id                |-> IF type = "rack-types" THEN ident ELSE PyNone,
     design_template   |-> IF type = "templates" THEN DesignTemplate(ident, var) ELSE NoneDict,
     subnets           |-> Subnets(var),
     ranges            |-> Ranges(var),
     tags              |-> Tags(var),
     asn               |-> IF var = "v1" THEN 65000 ELSE 65001,
     address           |-> <<"address", var>>,
     ipv6_address      |-> <<"ipv6_address", var>>,
     panels            |-> <<"panels", var>>,
     device_profile_id |-> <<"device_profile_id", var>>,
     logical_device_id |-> <<"logical_device_id", var>>,
     interfaces        |-> <<"interfaces", var>>,
     access_switches   |-> <<"access_switches", var>>,
     description       |-> <<"description", var>>,
     leafs             |-> <<"leafs", var>>,
     logical_devices   |-> <<"logical_devices", var>>,
     servers           |-> <<"servers", var>>,
     design            |-> "two_stage_l3clos",
     init_type         |-> "template_reference",
     template_id       |-> <<"template_id", var>>]

States == {"present", "absent"}

\* every declaration a task can make
Declarations ==
    UNION {{ParamsFor(t, i, s, v) : i \in IdentsOf(t), s \in States, v \in Variants} :
           t \in AllTypes}

---------------------------------------------------------------------------
(* Payload construction, one per kind function *)

\* mutant: the dict is created once, before the loop, so every element of the
\* list is the same dict and holds the last subnet
subnets_payload_shared_dict(subnets) ==
    [i \in 1..Len(subnets) |-> [network |-> subnets[Len(subnets)]]]

\* the loop that wraps each declared subnet string into a record
RECURSIVE subnets_payload(_)
subnets_payload(subnets) ==
    IF subnets = <<>> THEN <<>>
    ELSE <<[network |-> Head(subnets)]>> \o subnets_payload(Tail(subnets))

\* mutant: the dict is built with the id key the code adds after the post
ipv4_pool_data_with_id(P) ==
    [display_name |-> P.display_name,
     subnets      |-> subnets_payload(P.subnets),
     tags         |-> P.tags,
     id           |-> PyNone]

ipv4_pool_data(P) ==
    [display_name |-> P.display_name,
     subnets      |-> subnets_payload(P.subnets),
     tags         |-> P.tags]

ipv6_pool_data(P) ==
    [display_name |-> P.display_name,
     subnets      |-> subnets_payload(P.subnets),
     tags         |-> P.tags]

\* mutant: the ranges go out under the key of the IP pools, subnets
asn_pool_data_subnets(P) ==
    [display_name |-> P.display_name, subnets |-> P.ranges, tags |-> P.tags]

asn_pool_data(P) ==
    [display_name |-> P.display_name, ranges |-> P.ranges, tags |-> P.tags]

vlan_pool_data(P) ==
    [display_name |-> P.display_name, ranges |-> P.ranges, tags |-> P.tags]

vni_pool_data(P) ==
    [display_name |-> P.display_name, ranges |-> P.ranges, tags |-> P.tags]

external_router_data(P) ==
    [display_name |-> P.display_name,
     asn          |-> P.asn,
     address      |-> P.address,
     ipv6_address |-> P.ipv6_address]

logical_device_data(P) ==
    [display_name |-> P.display_name, panels |-> P.panels]

interface_maps_data(P) ==
    [device_profile_id |-> P.device_profile_id,
     logical_device_id |-> P.logical_device_id,
     interfaces        |-> P.interfaces,
     label             |-> P.label]

rack_types_data(P) ==
    [access_switches |-> P.access_switches,
     description     |-> P.description,
     display_name    |-> P.display_name,
     id              |-> P.id,
     leafs           |-> P.leafs,
     logical_devices |-> P.logical_devices,
     servers         |-> P.servers]

\* mutant: the declared design_template is posted as it is
templates_data_whole(P) == P.design_template

\* defined when design_template is a dict; subscripting None raises TypeError
templates_data(P) ==
    [asn_allocation_policy    |-> P.design_template.asn_allocation_policy,
     dhcp_service_intent      |-> P.design_template.dhcp_service_intent,
     display_name             |-> P.design_template.display_name,
     external_routing_policy  |-> P.design_template.external_routing_policy,
     fabric_addressing_policy |-> P.design_template.fabric_addressing_policy,
     rack_type_counts         |-> P.design_template.rack_type_counts,
     rack_types               |-> P.design_template.rack_types,
     spine                    |-> P.design_template.spine,
     type                     |-> P.design_template.type,
     virtual_network_policy   |-> P.design_template.virtual_network_policy]

\* mutant: the payload carries an id as well, as the rack type payload does
blueprint_data_with_id(P) ==
    [design      |-> P.design,
     init_type   |-> P.init_type,
     template_id |-> P.template_id,
     label       |-> P.label,
     id          |-> P.id]

blueprint_data(P) ==
    [design      |-> P.design,
     init_type   |-> P.init_type,
     template_id |-> P.template_id,
     label       |-> P.label]

---------------------------------------------------------------------------
(* The remote service behind ApstraHelper: rest.get, rest.post, rest.delete *)

\* an entry that carries no display_name and no label
Missing == "<missing>"

\* attributes of the entries of the initial collections
InitialAttr == "v1"

\* the n-th entry of an initial collection, named v
InitialEntry(n, v) ==
    IF v = Missing THEN [id |-> IdName(n), attr |-> InitialAttr]
    ELSE [id |-> IdName(n), display_name |-> v, label |-> v, attr |-> InitialAttr]

\* the collections a call can find: any order, duplicates, entries without a name
Inventories ==
    UNION {{[n \in 1..len |-> InitialEntry(n, vals[n])] :
                vals \in [1..len -> Names \cup {Missing}]} : len \in 0..MaxItems}

\* what rest.get can return for a collection: the collection with 200, a body of
\* another shape with 200, or another status
GetResponses(type) ==
    {[status_code |-> 200, json |-> [shape |-> "dict", items |-> inv[type]]],
     [status_code |-> 200, json |-> [shape |-> "dict"]],
     [status_code |-> 200, json |-> [shape |-> "list"]],
     [status_code |-> 200, json |-> [shape |-> "scalar"]],
     [status_code |-> 201, json |-> [shape |-> "dict", items |-> inv[type]]],
     [status_code |-> 404, json |-> [shape |-> "dict", errors |-> "not found"]]}

\* response.info of a response
Info(r) == [status |-> r.status_code, body |-> r.json]

HasId(items, id) == \E i \in 1..Len(items) : items[i].id = id

RemoveId(items, id) == SelectSeq(items, LAMBDA e : e.id # id)

\* what rest.delete can return for an id, with the collection it leaves
DeleteResults(type, id) ==
    (IF HasId(inv[type], id)
     THEN {[response |-> [status_code |-> 200, json |-> [shape |-> "dict"]],
            items    |-> RemoveId(inv[type], id)]}
     ELSE {[response |-> [status_code |-> 404,
                          json |-> [shape |-> "dict", errors |-> "not found"]],
            items    |-> inv[type]]})
    \cup {[response |-> [status_code |-> 500,
                         json |-> [shape |-> "dict", errors |-> "server error"]],
           items    |-> inv[type]]}

\* the name a create payload carries: its display_name, or else its label
PayloadName(payload) ==
    IF "display_name" \in DOMAIN payload THEN payload.display_name ELSE payload.label

\* the entry the remote stores for a create and lists from then on: the name
\* of the payload as display_name and label, like the entries it already
\* holds, under the id it assigns (a rack type keeps the id the payload names)
CreatedEntry(payload, attr, newid) ==
    [id           |-> IF "id" \in DOMAIN payload /\ payload.id # PyNone
                      THEN payload.id ELSE newid,
     display_name |-> PayloadName(payload),
     label        |-> PayloadName(payload),
     attr         |-> attr]

\* what rest.post can return, with the collection it leaves: created and the new
\* entry's id in the body, created with a body that names no id, or a refusal
PostResults(type, payload, attr) ==
    LET entry == CreatedEntry(payload, attr, NewId(nextId + 1)) IN
    {[response |-> [status_code |-> 201, json |-> [shape |-> "dict", id |-> entry.id]],
      items    |-> Append(inv[type], entry), assigned |-> 1],
     [response |-> [status_code |-> 201, json |-> [shape |-> "dict"]],
      items    |-> Append(inv[type], entry), assigned |-> 1],
     [response |-> [status_code |-> 422,
                    json |-> [shape |-> "dict", errors |-> "unprocessable"]],
      items    |-> inv[type], assigned |-> 0]}

---------------------------------------------------------------------------
(* exit_json, fail_json and the exceptions main() turns into fail_json *)

NoOutcome == [result |-> "none"]

ExitJson(changed, data) == [result |-> "exit", changed |-> changed, data |-> data]

FailJson(msg) == [result |-> "fail", msg |-> msg]

\* main(): except Exception as e: module.fail_json(msg=to_native(e), ...)
Raised(exception) == FailJson([exception |-> exception])

NotDictMsg == [text |-> "The response returned is not in a dictionary format, contant support"]

FetchFailedMsg(r) ==
    [text |-> "Failed to receive a response from the API, here is the response information to help you debug : ",
     info |-> Info(r)]

DoesNotExistMsg(subject) == <<subject, " does not exist", ", exiting">>

---------------------------------------------------------------------------
(* The scan of a kind function over resources["items"] *)

NoElement == [scanned |-> FALSE]

\* the dict a kind function creates before its loop
EmptyElement(fields) ==
    [f \in fields \cup {"provisioned"} |-> IF f = "provisioned" THEN FALSE ELSE PyNone]

\* mutant: the body of the if flips 'provisioned' and stores the name, not the id
MatchedElement_without_id(each, fields) ==
    [f \in fields \cup {"provisioned"} |->
        IF f = "provisioned" THEN TRUE ELSE IF f = "id" THEN PyNone ELSE each[f]]

\* the dict after the body of the if ran for the entry `each`
MatchedElement(each, fields) ==
    [f \in fields \cup {"provisioned"} |-> IF f = "provisioned" THEN TRUE ELSE each[f]]

\* the value the loop compares each entry's key with: module.params[key], or for
\* templates module.params['design_template']['display_name']
Want(P, key) == [raises |-> FALSE, value |-> P[key]]

\* mutant: the loop compares with module.params['display_name'], as the other
\* kind functions do
TemplateWant_top_level(P) == [raises |-> FALSE, value |-> P.display_name]

TemplateWant(P) ==
    IF Subscriptable(P.design_template)
    THEN [raises |-> FALSE, value |-> P.design_template.display_name]
    ELSE [raises |-> TRUE, value |-> PyNone]

\* A Python value of an identity field is written as a string of the model:
\* the str 'n1' as "n1", the str '1' as "1", the int 1 as "<int 1>".  Two values
\* are equal in Python exactly when their strings are.

\* the value without surrounding whitespace, in lower case, as a str
Normalized(v) ==
    IF v \in {"N1", " n1"} THEN "n1"
    ELSE IF v = "<int 1>" THEN "1"
    ELSE v

\* mutant: the comparison strips, lower-cases and converts to str first
SameIdentity_normalized(a, b) == Normalized(a) = Normalized(b)

\* each[key] == want : the comparison of the loop
SameIdentity(a, b) == a = b

\* for each in resources["items"]: if each[key] == want: (overwrite the dict).
\* each[key] raises KeyError on an entry without the key; the loop ends there.
RECURSIVE ScanItems(_, _, _, _, _)
ScanItems(items, key, want, fields, acc) ==
    IF items = <<>> THEN [raised |-> "", element |-> acc]
    ELSE LET each == Head(items) IN
         IF key \notin DOMAIN each THEN [raised |-> "KeyError", element |-> acc]
         ELSE IF want.raises THEN [raised |-> "TypeError", element |-> acc]
         ELSE IF SameIdentity(each[key], want.value)
              THEN ScanItems(Tail(items), key, want, fields, MatchedElement(each, fields))
              ELSE ScanItems(Tail(items), key, want, fields, acc)

\* mutant: the body of the if runs for the first matching entry only
\* (if not provisioned and each[key] == want)
RECURSIVE ScanItems_keep_first(_, _, _, _, _)
ScanItems_keep_first(items, key, want, fields, acc) ==
    IF items = <<>> THEN [raised |-> "", element |-> acc]
    ELSE LET each == Head(items) IN
         IF key \notin DOMAIN each THEN [raised |-> "KeyError", element |-> acc]
         ELSE IF want.raises THEN [raised |-> "TypeError", element |-> acc]
         ELSE IF acc.provisioned = FALSE /\ SameIdentity(each[key], want.value)
              THEN ScanItems_keep_first(Tail(items), key, want, fields,
                                        MatchedElement(each, fields))
              ELSE ScanItems_keep_first(Tail(items), key, want, fields, acc)

Scan_keep_first(items, key, want, fields) ==
    ScanItems_keep_first(items, key, want, fields, EmptyElement(fields))

\* mutant: the loop breaks at the first entry that matches
RECURSIVE ScanItems_break(_, _, _, _, _)
ScanItems_break(items, key, want, fields, acc) ==
    IF items = <<>> THEN [raised |-> "", element |-> acc]
    ELSE LET each == Head(items) IN
         IF key \notin DOMAIN each THEN [raised |-> "KeyError", element |-> acc]
         ELSE IF want.raises THEN [raised |-> "TypeError", element |-> acc]
         ELSE IF SameIdentity(each[key], want.value)
              THEN [raised |-> "", element |-> MatchedElement(each, fields)]
              ELSE ScanItems_break(Tail(items), key, want, fields, acc)

Scan_break(items, key, want, fields) ==
    ScanItems_break(items, key, want, fields, EmptyElement(fields))

Scan(items, key, want, fields) == ScanItems(items, key, want, fields, EmptyElement(fields))

\* mutant: the absent branch deletes without looking at 'provisioned'
Branch_always_delete(state, provisioned) ==
    IF state = "absent" THEN "delete"
    ELSE (IF provisioned = FALSE THEN "create" ELSE "accept")

\* mutant: the present branch creates without looking at 'provisioned'
Branch_recreate(state, provisioned) ==
    IF state = "absent"
    THEN (IF provisioned = TRUE THEN "delete" ELSE "not_exist")
    ELSE "create"

\* the branch the two ifs of a kind function take
Branch(state, provisioned) ==
    IF state = "absent"
    THEN (IF provisioned = TRUE THEN "delete" ELSE "not_exist")
    ELSE (IF provisioned = FALSE THEN "create" ELSE "accept")

\* mutant: the delete goes to the collection, the id left out of the path
DeletePath_collection(type, id) == CollectionPath(type)

\* the path of rest.delete
DeletePath(type, id) == Append(CollectionPath(type), id)

IsDict(json) == json.shape = "dict"

\* mutant: resources.get("items", []) on a dict
ItemsLookup_lenient(resources) ==
    IF ~IsDict(resources) THEN [raised |-> "TypeError", items |-> <<>>]
    ELSE IF "items" \notin DOMAIN resources THEN [raised |-> "", items |-> <<>>]
    ELSE [raised |-> "", items |-> resources.items]

\* resources["items"]: TypeError on a body that is no dict, KeyError on a dict
\* without the key
ItemsLookup(resources) ==
    IF ~IsDict(resources) THEN [raised |-> "TypeError", items |-> <<>>]
    ELSE IF "items" \notin DOMAIN resources THEN [raised |-> "KeyError", items |-> <<>>]
    ELSE [raised |-> "", items |-> resources.items]

---------------------------------------------------------------------------
(* Steps of a call *)

Request(method, path) == [method |-> method, path |-> path]

RequestWith(method, path, data) == [method |-> method, path |-> path, data |-> data]

\* mutant: core accepts every 2xx status
FetchAccepted_2xx(status_code) == status_code \in 200..299

\* the status core accepts for the fetch
FetchAccepted(status_code) == status_code = 200

\* core, from its start to the response of rest.get: the fetch of the
\* collection and the check of its status, for a task among `declarations`
CoreWith(p, module, declarations) ==
    /\ pc[p] = "idle"
    /\ \E P \in declarations : \E r \in GetResponses(RouteOf(CollectionPath(P.type))) :
        /\ ModuleOf(P.type) = module
        /\ params' = [params EXCEPT ![p] = P]
        /\ response' = [response EXCEPT ![p] = r]
        /\ calls' = [calls EXCEPT ![p] = <<Request("GET", CollectionPath(P.type))>>]
        /\ before' = [before EXCEPT ![p] = inv]
        /\ IF FetchAccepted(r.status_code)
           THEN /\ pc' = [pc EXCEPT ![p] = "fetched"]
                /\ UNCHANGED outcome
           ELSE /\ pc' = [pc EXCEPT ![p] = "done"]
                /\ outcome' = [outcome EXCEPT ![p] = FailJson(FetchFailedMsg(r))]
    /\ UNCHANGED <<inv, nextId, mresponse, element, recap>>

\* core for any task a play can hold
Core(p, module) == CoreWith(p, module, Declarations)

\* mutant: exit_json and fail_json return to their caller, so the function
\* returns to core and core's trailing exit_json is what the call reports
Local_falls_through(p, out, el) ==
    /\ pc' = [pc EXCEPT ![p] = "done"]
    /\ outcome' = [outcome EXCEPT ![p] = ExitJson(FALSE, [resources |-> response[p].json])]
    /\ element' = [element EXCEPT ![p] = el]
    /\ UNCHANGED <<inv, nextId, params, response, calls, mresponse, before, recap>>

\* a call ends without a remote call after the fetch
Local(p, out, el) ==
    /\ pc' = [pc EXCEPT ![p] = "done"]
    /\ outcome' = [outcome EXCEPT ![p] = out]
    /\ element' = [element EXCEPT ![p] = el]
    /\ UNCHANGED <<inv, nextId, params, response, calls, mresponse, before, recap>>

\* mutant: the status of the delete is read before the report
DeleteOutcome_checked(r) ==
    IF r.status_code = 200 THEN ExitJson(TRUE, [response |-> r.json])
    ELSE FailJson([response |-> r.json])

\* mutant: the delete is reported with changed=False
DeleteOutcome_unchanged(r) == ExitJson(FALSE, [response |-> r.json])

\* response = rest.delete(...); module.exit_json(changed=True, data=response.json)
DeleteOutcome(r) == ExitJson(TRUE, [response |-> r.json])

\* mutant: the create is reported with changed=False
CreateOutcome_unchanged(r, reads_id) ==
    IF reads_id /\ "id" \notin DOMAIN r.json THEN Raised("KeyError")
    ELSE ExitJson(FALSE, [response |-> r.json])

\* mutant: the id is read with response.json.get('id'), which raises nothing
CreateOutcome_lenient(r, reads_id) == ExitJson(TRUE, [response |-> r.json])

\* response = rest.post(...); [data['id'] = response.json['id'];]
\* module.exit_json(changed=True, data=response.json)
CreateOutcome(r, reads_id) ==
    IF reads_id /\ "id" \notin DOMAIN r.json THEN Raised("KeyError")
    ELSE ExitJson(TRUE, [response |-> r.json])

\* mutant: the delete is refused while another call holds the entry as found
DeleteExisting_unless_in_use(p, type, el) ==
    IF \E q \in Procs \ {p} :
          /\ pc[q] = "done" /\ params[q].type = type
          /\ "provisioned" \in DOMAIN element[q]
          /\ element[q].provisioned = TRUE /\ element[q].id = el.id
    THEN /\ pc' = [pc EXCEPT ![p] = "done"]
         /\ outcome' = [outcome EXCEPT ![p] = FailJson([text |-> "resource is in use"])]
         /\ element' = [element EXCEPT ![p] = el]
         /\ UNCHANGED <<inv, nextId, params, response, calls, mresponse, before, recap>>
    ELSE \E res \in DeleteResults(type, el.id) :
            /\ inv' = [inv EXCEPT ![type] = res.items]
            /\ calls' = [calls EXCEPT ![p] = Append(@, Request("DELETE", DeletePath(type, el.id)))]
            /\ mresponse' = [mresponse EXCEPT ![p] = res.response]
            /\ element' = [element EXCEPT ![p] = el]
            /\ pc' = [pc EXCEPT ![p] = "done"]
            /\ outcome' = [outcome EXCEPT ![p] = DeleteOutcome(res.response)]
            /\ UNCHANGED <<nextId, params, response, before, recap>>

\* mutant: the delete is followed by a second fetch that verifies it
DeleteExisting_then_verify(p, type, el) ==
    \E res \in DeleteResults(type, el.id) :
        /\ inv' = [inv EXCEPT ![type] = res.items]
        /\ calls' = [calls EXCEPT ![p] =
                        Append(Append(@, Request("DELETE", DeletePath(type, el.id))),
                               Request("GET", CollectionPath(type)))]
        /\ mresponse' = [mresponse EXCEPT ![p] = res.response]
        /\ element' = [element EXCEPT ![p] = el]
        /\ pc' = [pc EXCEPT ![p] = "done"]
        /\ outcome' = [outcome EXCEPT ![p] = DeleteOutcome(res.response)]
        /\ UNCHANGED <<nextId, params, response, before, recap>>

DeleteExisting(p, type, el) ==
    \E res \in DeleteResults(RouteOf(DeletePath(type, el.id)), el.id) :
        /\ inv' = [inv EXCEPT ![RouteOf(DeletePath(type, el.id))] = res.items]
        /\ calls' = [calls EXCEPT ![p] = Append(@, Request("DELETE", DeletePath(type, el.id)))]
        /\ mresponse' = [mresponse EXCEPT ![p] = res.response]
        /\ element' = [element EXCEPT ![p] = el]
        /\ pc' = [pc EXCEPT ![p] = "done"]
        /\ outcome' = [outcome EXCEPT ![p] = DeleteOutcome(res.response)]
        /\ UNCHANGED <<nextId, params, response, before, recap>>

\* mutant: the module remembers the creates of its run: a create another call
\* of the run already sent is not sent again
CreateMissing_once_per_run(p, type, el, payload, reads_id) ==
    IF \E q \in Procs \ {p} : \E i \in 1..Len(calls[q]) :
          calls[q][i] = RequestWith("POST", CollectionPath(type), payload)
    THEN /\ pc' = [pc EXCEPT ![p] = "done"]
         /\ outcome' = [outcome EXCEPT ![p] = ExitJson(FALSE, [element |-> el])]
         /\ element' = [element EXCEPT ![p] = el]
         /\ UNCHANGED <<inv, nextId, params, response, calls, mresponse, before, recap>>
    ELSE \E res \in PostResults(RouteOf(CollectionPath(type)), payload, params[p].variant) :
            /\ inv' = [inv EXCEPT ![RouteOf(CollectionPath(type))] = res.items]
            /\ nextId' = nextId + res.assigned
            /\ calls' = [calls EXCEPT ![p] =
                            Append(@, RequestWith("POST", CollectionPath(type), payload))]
            /\ mresponse' = [mresponse EXCEPT ![p] = res.response]
            /\ element' = [element EXCEPT ![p] = el]
            /\ pc' = [pc EXCEPT ![p] = "done"]
            /\ outcome' = [outcome EXCEPT ![p] = CreateOutcome(res.response, reads_id)]
            /\ UNCHANGED <<params, response, before, recap>>

\* mutant: the post is sent a second time
CreateMissing_twice(p, type, el, payload, reads_id) ==
    \E res \in PostResults(type, payload, params[p].variant) :
        /\ inv' = [inv EXCEPT ![type] = res.items]
        /\ nextId' = nextId + res.assigned
        /\ calls' = [calls EXCEPT ![p] =
                        Append(Append(@, RequestWith("POST", CollectionPath(type), payload)),
                               RequestWith("POST", CollectionPath(type), payload))]
        /\ mresponse' = [mresponse EXCEPT ![p] = res.response]
        /\ element' = [element EXCEPT ![p] = el]
        /\ pc' = [pc EXCEPT ![p] = "done"]
        /\ outcome' = [outcome EXCEPT ![p] = CreateOutcome(res.response, reads_id)]
        /\ UNCHANGED <<params, response, before, recap>>

\* mutant: a conditional create: the post is issued only when the collection
\* still holds no entry of the declared display_name
CreateMissing_conditional(p, type, el, payload, reads_id) ==
    IF \E i \in 1..Len(inv[type]) :
          /\ "display_name" \in DOMAIN inv[type][i] /\ "display_name" \in DOMAIN payload
          /\ inv[type][i].display_name = payload.display_name
    THEN /\ pc' = [pc EXCEPT ![p] = "done"]
         /\ outcome' = [outcome EXCEPT ![p] = ExitJson(FALSE, [element |-> el])]
         /\ element' = [element EXCEPT ![p] = el]
         /\ UNCHANGED <<inv, nextId, params, response, calls, mresponse, before, recap>>
    ELSE \E res \in PostResults(type, payload, params[p].variant) :
            /\ inv' = [inv EXCEPT ![type] = res.items]
            /\ nextId' = nextId + res.assigned
            /\ calls' = [calls EXCEPT ![p] =
                            Append(@, RequestWith("POST", CollectionPath(type), payload))]
            /\ mresponse' = [mresponse EXCEPT ![p] = res.response]
            /\ element' = [element EXCEPT ![p] = el]
            /\ pc' = [pc EXCEPT ![p] = "done"]
            /\ outcome' = [outcome EXCEPT ![p] = CreateOutcome(res.response, reads_id)]
            /\ UNCHANGED <<params, response, before, recap>>

CreateMissing(p, type, el, payload, reads_id) ==
    \E res \in PostResults(RouteOf(CollectionPath(type)), payload, params[p].variant) :
        /\ inv' = [inv EXCEPT ![RouteOf(CollectionPath(type))] = res.items]
        /\ nextId' = nextId + res.assigned
        /\ calls' = [calls EXCEPT ![p] =
                        Append(@, RequestWith("POST", CollectionPath(type), payload))]
        /\ mresponse' = [mresponse EXCEPT ![p] = res.response]
        /\ element' = [element EXCEPT ![p] = el]
        /\ pc' = [pc EXCEPT ![p] = "done"]
        /\ outcome' = [outcome EXCEPT ![p] = CreateOutcome(res.response, reads_id)]
        /\ UNCHANGED <<params, response, before, recap>>

\* the body shared by the eleven kind functions; d holds what differs:
\*   key, want   the comparison of the loop
\*   fields      the keys of the dict the loop fills, besides 'provisioned'
\*   subject     the subject of the "does not exist" message
\*   checks_dict the function begins with the isinstance(resources, dict) check
\*   reads_id    the function reads response.json['id'] after the post
\*   payload_ok  building the payload raises nothing
KindFunction(p, d, payload) ==
    LET P == params[p]
        resources == response[p].json
        looked == ItemsLookup(resources)
    IN  IF d.checks_dict /\ ~IsDict(resources) THEN Local(p, FailJson(NotDictMsg), NoElement)
        ELSE IF looked.raised # "" THEN Local(p, Raised(looked.raised), NoElement)
        ELSE LET s == Scan(looked.items, d.key, d.want, d.fields)
                 el == s.element
                 branch == Branch(P.state, el.provisioned)
             IN  IF s.raised # "" THEN Local(p, Raised(s.raised), el)
                 ELSE IF branch = "delete" THEN DeleteExisting(p, P.type, el)
                 ELSE IF branch = "not_exist"
                      THEN Local(p, ExitJson(FALSE, [message |-> DoesNotExistMsg(d.subject)]), el)
                 ELSE IF branch = "create"
                      THEN (IF d.payload_ok
                            THEN CreateMissing(p, P.type, el, payload, d.reads_id)
                            ELSE Local(p, Raised("TypeError"), el))
                 ELSE Local(p, ExitJson(FALSE, [element |-> el]), el)

---------------------------------------------------------------------------
(* The kind functions *)

\* mutant: the type is matched leniently, "ip-pool" is taken for "ip-pools"
ResourcesDispatch_lenient(type) ==
    IF type \in {"ip-pools", "ip-pool"} THEN "ipv4_pool"
    ELSE IF type = "ipv6-pools" THEN "ipv6_pool"
    ELSE IF type = "external-routers" THEN "external_routers"
    ELSE IF type = "asn-pools" THEN "asn_pool"
    ELSE IF type = "vlan-pools" THEN "vlan_pool"
    ELSE IF type = "vni-pools" THEN "vni_pool"
    ELSE ""

\* the function core of resources.py calls for a type ("" for none)
ResourcesDispatch(type) ==
    IF type = "ip-pools" THEN "ipv4_pool"
    ELSE IF type = "ipv6-pools" THEN "ipv6_pool"
    ELSE IF type = "external-routers" THEN "external_routers"
    ELSE IF type = "asn-pools" THEN "asn_pool"
    ELSE IF type = "vlan-pools" THEN "vlan_pool"
    ELSE IF type = "vni-pools" THEN "vni_pool"
    ELSE ""

\* the function core of design.py calls for a type ("" for none)
DesignDispatch(type) ==
    IF type = "logical-devices" THEN "logical_device"
    ELSE IF type = "interface-maps" THEN "interface_maps"
    ELSE IF type = "rack-types" THEN "rack_types"
    ELSE IF type = "templates" THEN "templates"
    ELSE ""

\* core hands the 200 response of p's call to the function f of the module
Dispatched(p, module, f) ==
    /\ pc[p] = "fetched"
    /\ ModuleOf(params[p].type) = module
    /\ IF module = "resources" THEN ResourcesDispatch(params[p].type) = f
       ELSE IF module = "design" THEN IsDict(response[p].json) /\ DesignDispatch(params[p].type) = f
       ELSE IsDict(response[p].json) /\ f = "build_blueprint"

external_routers(p) ==
    /\ Dispatched(p, "resources", "external_routers")
    /\ KindFunction(p, [key |-> "display_name", want |-> Want(params[p], "display_name"),
                        fields |-> {"display_name", "id"}, subject |-> "External Router",
                        checks_dict |-> TRUE, reads_id |-> TRUE, payload_ok |-> TRUE],
                    external_router_data(params[p]))

ipv4_pool(p) ==
    /\ Dispatched(p, "resources", "ipv4_pool")
    /\ KindFunction(p, [key |-> "display_name", want |-> Want(params[p], "display_name"),
                        fields |-> {"display_name", "id"}, subject |-> "IP Pool",
                        checks_dict |-> TRUE, reads_id |-> TRUE, payload_ok |-> TRUE],
                    ipv4_pool_data(params[p]))

ipv6_pool(p) ==
    /\ Dispatched(p, "resources", "ipv6_pool")
    /\ KindFunction(p, [key |-> "display_name", want |-> Want(params[p], "display_name"),
                        fields |-> {"display_name", "id"}, subject |-> "IPv6 Pool",
                        checks_dict |-> TRUE, reads_id |-> TRUE, payload_ok |-> TRUE],
                    ipv6_pool_data(params[p]))

asn_pool(p) ==
    /\ Dispatched(p, "resources", "asn_pool")
    /\ KindFunction(p, [key |-> "display_name", want |-> Want(params[p], "display_name"),
                        fields |-> {"display_name", "id"}, subject |-> "ASN Pool",
                        checks_dict |-> TRUE, reads_id |-> TRUE, payload_ok |-> TRUE],
                    asn_pool_data(params[p]))

vlan_pool(p) ==
    /\ Dispatched(p, "resources", "vlan_pool")
    /\ KindFunction(p, [key |-> "display_name", want |-> Want(params[p], "display_name"),
                        fields |-> {"display_name", "id"}, subject |-> "VLAN Pool",
                        checks_dict |-> TRUE, reads_id |-> TRUE, payload_ok |-> TRUE],
                    vlan_pool_data(params[p]))

vni_pool(p) ==
    /\ Dispatched(p, "resources", "vni_pool")
    /\ KindFunction(p, [key |-> "display_name", want |-> Want(params[p], "display_name"),
                        fields |-> {"display_name", "id"}, subject |-> "VNI Pool",
                        checks_dict |-> TRUE, reads_id |-> TRUE, payload_ok |-> TRUE],
                    vni_pool_data(params[p]))

rack_types(p) ==
    /\ Dispatched(p, "design", "rack_types")
    /\ KindFunction(p, [key |-> "id", want |-> Want(params[p], "id"),
                        fields |-> {"id"}, subject |-> "Rack Type",
                        checks_dict |-> FALSE, reads_id |-> FALSE, payload_ok |-> TRUE],
                    rack_types_data(params[p]))

interface_maps(p) ==
    /\ Dispatched(p, "design", "interface_maps")
    /\ KindFunction(p, [key |-> "label", want |-> Want(params[p], "label"),
                        fields |-> {"id", "label"}, subject |-> "Interface Mapping",
                        checks_dict |-> FALSE, reads_id |-> FALSE, payload_ok |-> TRUE],
                    interface_maps_data(params[p]))

logical_device(p) ==
    /\ Dispatched(p, "design", "logical_device")
    /\ KindFunction(p, [key |-> "display_name", want |-> Want(params[p], "display_name"),
                        fields |-> {"display_name", "id"}, subject |-> "Logical Device",
                        checks_dict |-> FALSE, reads_id |-> TRUE, payload_ok |-> TRUE],
                    logical_device_data(params[p]))

templates(p) ==
    /\ Dispatched(p, "design", "templates")
    /\ KindFunction(p, [key |-> "display_name", want |-> TemplateWant(params[p]),
                        fields |-> {"display_name", "id"}, subject |-> "Template",
                        checks_dict |-> FALSE, reads_id |-> FALSE,
                        payload_ok |-> Subscriptable(params[p].design_template)],
                    IF Subscriptable(params[p].design_template)
                    THEN templates_data(params[p]) ELSE NoneDict)

build_blueprint(p) ==
    /\ Dispatched(p, "blueprint", "build_blueprint")
    /\ KindFunction(p, [key |-> "label", want |-> Want(params[p], "label"),
                        fields |-> {"id", "label"}, subject |-> "Interface Mapping",
                        checks_dict |-> FALSE, reads_id |-> FALSE, payload_ok |-> TRUE],
                    blueprint_data(params[p]))

\* core of resources.py when no branch of its if/elif chain takes the type
resources_core_exit(p) ==
    /\ Dispatched(p, "resources", "")
    /\ Local(p, ExitJson(FALSE, [resources |-> response[p].json]), NoElement)

\* core of design.py: the isinstance(resources, dict) check fails
design_core_not_dict(p) ==
    /\ pc[p] = "fetched"
    /\ ModuleOf(params[p].type) = "design"
    /\ ~IsDict(response[p].json)
    /\ Local(p, FailJson(NotDictMsg), NoElement)

\* core of design.py when no branch of its if/elif chain takes the type
design_core_exit(p) ==
    /\ Dispatched(p, "design", "")
    /\ Local(p, ExitJson(FALSE, [resources |-> response[p].json]), NoElement)

\* core of blueprint.py: the isinstance(resources, dict) check fails
blueprint_core_not_dict(p) ==
    /\ pc[p] = "fetched"
    /\ ModuleOf(params[p].type) = "blueprint"
    /\ ~IsDict(response[p].json)
    /\ Local(p, FailJson(NotDictMsg), NoElement)

resources_core(p) == Core(p, "resources")

design_core(p) == Core(p, "design")

blueprint_core(p) == Core(p, "blueprint")

---------------------------------------------------------------------------
(* One call at a time: a single task of a play *)

NoParams == [type |-> "", state |-> ""]

NoResponse == [status_code |-> 0, json |-> [shape |-> "none"]]

Init ==
    /\ \E I \in Inventories : inv = [t \in AllTypes |-> I]
    /\ nextId = 0
    /\ pc = [p \in Procs |-> "idle"]
    /\ params = [p \in Procs |-> NoParams]
    /\ response = [p \in Procs |-> NoResponse]
    /\ calls = [p \in Procs |-> <<>>]
    /\ mresponse = [p \in Procs |-> NoResponse]
    /\ element = [p \in Procs |-> NoElement]
    /\ outcome = [p \in Procs |-> NoOutcome]
    /\ before = [p \in Procs |-> inv]
    /\ recap = <<>>

\* the step of caller p
Step(p) ==
    \/ resources_core(p)
    \/ design_core(p)
    \/ blueprint_core(p)
    \/ external_routers(p)
    \/ ipv4_pool(p)
    \/ ipv6_pool(p)
    \/ asn_pool(p)
    \/ vlan_pool(p)
    \/ vni_pool(p)
    \/ rack_types(p)
    \/ interface_maps(p)
    \/ logical_device(p)
    \/ templates(p)
    \/ build_blueprint(p)
    \/ resources_core_exit(p)
    \/ design_core_not_dict(p)
    \/ design_core_exit(p)
    \/ blueprint_core_not_dict(p)

Next == Step("p1")

Spec == Init /\ [][Next]_vars

\* the collections of a call that is followed to its end
FairInventories == {I \in Inventories : Len(I) <= MaxFair}

InitFair ==
    /\ \E I \in FairInventories : inv = [t \in AllTypes |-> I]
    /\ nextId = 0
    /\ pc = [p \in Procs |-> "idle"]
    /\ params = [p \in Procs |-> NoParams]
    /\ response = [p \in Procs |-> NoResponse]
    /\ calls = [p \in Procs |-> <<>>]
    /\ mresponse = [p \in Procs |-> NoResponse]
    /\ element = [p \in Procs |-> NoElement]
    /\ outcome = [p \in Procs |-> NoOutcome]
    /\ before = [p \in Procs |-> inv]
    /\ recap = <<>>

\* the process of a task runs on until it has reported: the loops of a call
\* run over the snapshot, and nothing in a call waits on anything but the
\* answers of the remote service
SpecFair == InitFair /\ [][Next]_vars /\ WF_vars(Next)

---------------------------------------------------------------------------
(* Pool tasks: any list of subnets, tags declared or not *)

Cidrs == {"100.1.1.0/24", "10.0.0.0/24", "10.0.1.0/24"}

\* the lists of subnets a task can declare, repetitions included
SubnetLists == UNION {[1..n -> Cidrs] : n \in 0..MaxSubnets}

PoolNames == {"cicd_test", "n1"}

\* the ip-pools and ipv6-pools tasks
PoolDeclarations ==
    {[ParamsFor(t, i, s, "v1") EXCEPT !.subnets = ss, !.tags = tg] :
        t \in {"ip-pools", "ipv6-pools"}, i \in PoolNames, s \in States,
        ss \in SubnetLists, tg \in {UndeclaredTags, <<"cicd">>}}

\* the collections a pool task finds: empty, or one entry
PoolInventories == {I \in Inventories : Len(I) <= 1}

InitPools ==
    /\ \E I \in PoolInventories : inv = [t \in AllTypes |-> I]
    /\ nextId = 0
    /\ pc = [p \in Procs |-> "idle"]
    /\ params = [p \in Procs |-> NoParams]
    /\ response = [p \in Procs |-> NoResponse]
    /\ calls = [p \in Procs |-> <<>>]
    /\ mresponse = [p \in Procs |-> NoResponse]
    /\ element = [p \in Procs |-> NoElement]
    /\ outcome = [p \in Procs |-> NoOutcome]
    /\ before = [p \in Procs |-> inv]
    /\ recap = <<>>

NextPools ==
    \/ CoreWith("p1", "resources", PoolDeclarations)
    \/ ipv4_pool("p1")
    \/ ipv6_pool("p1")

SpecPools == InitPools /\ [][NextPools]_vars

---------------------------------------------------------------------------
(* Two tasks at once: two plays, or two hosts of a play, against one server *)

\* the IP pool and logical device tasks of the two callers
RaceDeclarations ==
    {ParamsFor(t, i, s, "v1") : t \in {"ip-pools", "logical-devices"}, i \in Names,
                                s \in States}

\* the step of caller p: each module is its own process, so the steps of two
\* calls interleave at their remote calls
RaceStep(p) ==
    \/ CoreWith(p, "resources", RaceDeclarations)
    \/ CoreWith(p, "design", RaceDeclarations)
    \/ ipv4_pool(p)
    \/ logical_device(p)
    \/ design_core_not_dict(p)

NextRace == \E p \in Procs : RaceStep(p)

SpecRace == InitPools /\ [][NextRace]_vars

---------------------------------------------------------------------------
(* The tasks of a play, one after the other *)

\* the kinds of the tasks: matched on display_name, on label and on id
PlayTypes == {"ip-pools", "interface-maps", "rack-types"}

PlayDeclarations == {P \in Declarations : P.type \in PlayTypes}

\* no two entries of the collection share a name
UniqueNames(I) ==
    \A i, j \in 1..Len(I) :
        (i # j /\ "display_name" \in DOMAIN I[i] /\ "display_name" \in DOMAIN I[j])
            => I[i].display_name # I[j].display_name

\* every entry of the collection carries a name
AllNamed(I) == \A i \in 1..Len(I) : "display_name" \in DOMAIN I[i]

\* the play starts on collections in which no two entries share a name
InitPlay ==
    /\ \E I \in {J \in Inventories : UniqueNames(J) /\ AllNamed(J)} :
          inv = [t \in AllTypes |-> I]
    /\ nextId = 0
    /\ pc = [p \in Procs |-> "idle"]
    /\ params = [p \in Procs |-> NoParams]
    /\ response = [p \in Procs |-> NoResponse]
    /\ calls = [p \in Procs |-> <<>>]
    /\ mresponse = [p \in Procs |-> NoResponse]
    /\ element = [p \in Procs |-> NoElement]
    /\ outcome = [p \in Procs |-> NoOutcome]
    /\ before = [p \in Procs |-> inv]
    /\ recap = <<>>

\* the module process ended by exit_json and the play goes on to its next
\* task, which starts a new process: nothing of the call is kept.  A failed
\* task ends the play.
next_task(p) ==
    /\ pc[p] = "done"
    /\ outcome[p].result = "exit"
    /\ nextId < MaxCreated
    /\ pc' = [pc EXCEPT ![p] = "idle"]
    /\ params' = [params EXCEPT ![p] = NoParams]
    /\ response' = [response EXCEPT ![p] = NoResponse]
    /\ calls' = [calls EXCEPT ![p] = <<>>]
    /\ mresponse' = [mresponse EXCEPT ![p] = NoResponse]
    /\ element' = [element EXCEPT ![p] = NoElement]
    /\ outcome' = [outcome EXCEPT ![p] = NoOutcome]
    /\ before' = [before EXCEPT ![p] = inv]
    /\ UNCHANGED <<inv, nextId, recap>>

NextPlay ==
    \/ CoreWith("p1", "resources", PlayDeclarations)
    \/ CoreWith("p1", "design", PlayDeclarations)
    \/ ipv4_pool("p1")
    \/ interface_maps("p1")
    \/ rack_types("p1")
    \/ design_core_not_dict("p1")
    \/ next_task("p1")

SpecPlay == InitPlay /\ [][NextPlay]_vars

---------------------------------------------------------------------------
(* Look-alike names: one call on entries that differ from the declared name *)
(* in letter case, in surrounding whitespace or in type                     *)

\* the values of the identity field of the remote entries
NearValues == {"n1", "N1", " n1", "1", "<int 1>"}

\* the values a task declares
NearDeclared == {"n1", "1"}

\* the n-th entry of a collection: an IP pool is named v, a rack type has the
\* id v
NearEntry(type, n, v) ==
    IF type = "rack-types"
    THEN [id |-> v, display_name |-> "rack", label |-> "rack", attr |-> InitialAttr]
    ELSE [id |-> IdName(n), display_name |-> v, label |-> v, attr |-> InitialAttr]

\* the lists of distinct values of the identity field
NearLists ==
    UNION {{vals \in [1..len -> NearValues] :
                \A i, j \in 1..len : i # j => vals[i] # vals[j]} : len \in 0..MaxNear}

NearDeclarations ==
    {ParamsFor(t, i, s, "v1") : t \in {"ip-pools", "rack-types"}, i \in NearDeclared,
                                s \in States}

InitNear ==
    /\ \E vals \in NearLists :
          inv = [t \in AllTypes |-> [n \in 1..Len(vals) |-> NearEntry(t, n, vals[n])]]
    /\ nextId = 0
    /\ pc = [p \in Procs |-> "idle"]
    /\ params = [p \in Procs |-> NoParams]
    /\ response = [p \in Procs |-> NoResponse]
    /\ calls = [p \in Procs |-> <<>>]
    /\ mresponse = [p \in Procs |-> NoResponse]
    /\ element = [p \in Procs |-> NoElement]
    /\ outcome = [p \in Procs |-> NoOutcome]
    /\ before = [p \in Procs |-> inv]
    /\ recap = <<>>

NextNear ==
    \/ CoreWith("p1", "resources", NearDeclarations)
    \/ CoreWith("p1", "design", NearDeclarations)
    \/ ipv4_pool("p1")
    \/ rack_types("p1")
    \/ design_core_not_dict("p1")

SpecNear == InitNear /\ [][NextNear]_vars

---------------------------------------------------------------------------
(* A recorded play of absent tasks on collections that hold duplicates *)

\* the tasks: the pool and the interface map named n1 are declared absent
AbsentDeclarations ==
    {ParamsFor(t, "n1", "absent", "v1") : t \in {"ip-pools", "interface-maps"}}

\* the play starts on collections whose entries may share a name
InitRecorded ==
    /\ \E I \in {J \in Inventories : AllNamed(J)} : inv = [t \in AllTypes |-> I]
    /\ nextId = 0
    /\ pc = [p \in Procs |-> "idle"]
    /\ params = [p \in Procs |-> NoParams]
    /\ response = [p \in Procs |-> NoResponse]
    /\ calls = [p \in Procs |-> <<>>]
    /\ mresponse = [p \in Procs |-> NoResponse]
    /\ element = [p \in Procs |-> NoElement]
    /\ outcome = [p \in Procs |-> NoOutcome]
    /\ before = [p \in Procs |-> inv]
    /\ recap = <<>>

\* what the play keeps of a task: its declaration, what the task sent and
\* got, its result, and the collections before and after it
TaskRecord(p) ==
    [params    |-> params[p],
     calls     |-> calls[p],
     mresponse |-> mresponse[p],
     outcome   |-> outcome[p],
     before    |-> before[p],
     after     |-> inv]

\* the module process ended by exit_json: the play records the task and goes
\* on to its next task, which starts a new process
record_task(p) ==
    /\ pc[p] = "done"
    /\ outcome[p].result = "exit"
    /\ Len(recap) < MaxTasks - 1
    /\ recap' = Append(recap, TaskRecord(p))
    /\ pc' = [pc EXCEPT ![p] = "idle"]
    /\ params' = [params EXCEPT ![p] = NoParams]
    /\ response' = [response EXCEPT ![p] = NoResponse]
    /\ calls' = [calls EXCEPT ![p] = <<>>]
    /\ mresponse' = [mresponse EXCEPT ![p] = NoResponse]
    /\ element' = [element EXCEPT ![p] = NoElement]
    /\ outcome' = [outcome EXCEPT ![p] = NoOutcome]
    /\ before' = [before EXCEPT ![p] = inv]
    /\ UNCHANGED <<inv, nextId>>

NextRecorded ==
    \/ CoreWith("p1", "resources", AbsentDeclarations)
    \/ CoreWith("p1", "design", AbsentDeclarations)
    \/ ipv4_pool("p1")
    \/ interface_maps("p1")
    \/ design_core_not_dict("p1")
    \/ record_task("p1")

SpecRecorded == InitRecorded /\ [][NextRecorded]_vars

---------------------------------------------------------------------------
(* Two tasks of a play: the second starts when the first has ended *)

\* the step of a task of the play run by p
PlayStep(p) ==
    \/ CoreWith(p, "resources", PlayDeclarations)
    \/ CoreWith(p, "design", PlayDeclarations)
    \/ ipv4_pool(p)
    \/ interface_maps(p)
    \/ rack_types(p)
    \/ design_core_not_dict(p)

\* p1 is the process of the first task, p2 of the second; the play runs the
\* second task when the first ended by exit_json
NextTwoTasks ==
    \/ PlayStep("p1")
    \/ /\ pc["p1"] = "done"
       /\ outcome["p1"].result = "exit"
       /\ PlayStep("p2")

SpecTwoTasks == InitPlay /\ [][NextTwoTasks]_vars

---------------------------------------------------------------------------
(* Vocabulary of the properties *)

Done(p) == pc[p] = "done"

IsMutation(c) == c.method \in {"POST", "DELETE"}

\* the creates and deletes a call issued, in order
Mutations(p) == SelectSeq(calls[p], IsMutation)

Fetches(p) == SelectSeq(calls[p], LAMBDA c : c.method = "GET")

\* the call is for one of the eleven kinds and its task names a resource
\* (a templates task carries its design_template)
KindCall(p) ==
    /\ params[p].type \in Kinds
    /\ Subscriptable(params[p].design_template) \/ params[p].type # "templates"

\* the fetch gave a snapshot: status 200 and a map with an `items` sequence
HasSnapshot(p) ==
    /\ response[p].status_code = 200
    /\ response[p].json.shape = "dict"
    /\ "items" \in DOMAIN response[p].json

Snapshot(p) == response[p].json.items

\* the field of a remote entry that identifies it, per kind
IdentityKey(type) ==
    IF type \in {"interface-maps", "blueprints"} THEN "label"
    ELSE IF type = "rack-types" THEN "id"
    ELSE "display_name"

\* the identity a task declares
DeclaredIdentity(P) ==
    IF P.type = "templates" THEN P.design_template.display_name
    ELSE P[IdentityKey(P.type)]

\* every entry of the snapshot carries the identity field of the kind
WellFormed(p) ==
    \A i \in 1..Len(Snapshot(p)) : IdentityKey(params[p].type) \in DOMAIN Snapshot(p)[i]

\* the positions of the snapshot entries that carry the declared identity
Matching(p) ==
    {i \in 1..Len(Snapshot(p)) :
        /\ IdentityKey(params[p].type) \in DOMAIN Snapshot(p)[i]
        /\ Snapshot(p)[i][IdentityKey(params[p].type)] = DeclaredIdentity(params[p])}

\* a completed call of a kind on a snapshot of well-formed entries
Reconciled(p) == Done(p) /\ KindCall(p) /\ HasSnapshot(p) /\ WellFormed(p)

\* the payload transformer of a kind
Transformer(type, P) ==
    CASE type = "ip-pools"         -> ipv4_pool_data(P)
      [] type = "ipv6-pools"       -> ipv6_pool_data(P)
      [] type = "asn-pools"        -> asn_pool_data(P)
      [] type = "vlan-pools"       -> vlan_pool_data(P)
      [] type = "vni-pools"        -> vni_pool_data(P)
      [] type = "external-routers" -> external_router_data(P)
      [] type = "logical-devices"  -> logical_device_data(P)
      [] type = "interface-maps"   -> interface_maps_data(P)
      [] type = "rack-types"       -> rack_types_data(P)
      [] type = "templates"        -> templates_data(P)
      [] type = "blueprints"       -> blueprint_data(P)

Changed(p) == outcome[p].result = "exit" /\ outcome[p].changed = TRUE

Unchanged(p) == outcome[p].result = "exit" /\ outcome[p].changed = FALSE

---------------------------------------------------------------------------
(* Properties *)

\* C1: for every kind, snapshot and desired state, one reconcile call issues at
\* most one mutating remote call: one create or one delete, never both and
\* never two of the same.
C1_AtMostOneMutation ==
    \A p \in Procs : params[p].type \in Kinds => Len(Mutations(p)) <= 1

C1_Witness ==
    \E p \in Procs : Done(p) /\ params[p].type \in Kinds /\ Len(Mutations(p)) = 1
                     /\ Mutations(p)[1].method = "DELETE"

C3_DeleteOnMatch ==
    \A p \in Procs :
        (Reconciled(p) /\ params[p].state = "absent" /\ Matching(p) # {}) =>
            /\ \E i \in Matching(p) :
                  Mutations(p) = <<Request("DELETE",
                                           CollectionPath(params[p].type) \o <<Snapshot(p)[i].id>>)>>
            /\ Changed(p)
            /\ outcome[p].data = [response |-> mresponse[p].json]

C3_Witness ==
    \E p \in Procs :
        /\ Reconciled(p) /\ params[p].state = "absent" /\ Matching(p) # {}
        /\ Changed(p) /\ mresponse[p].status_code = 200
        /\ Len(inv[params[p].type]) < Len(before[p][params[p].type])

\* C4: no-op stability.  When the desired state is absent and no snapshot entry
\* carries the declared identity (the empty snapshot included), the call issues
\* no create and no delete and returns changed=false with a message that
\* contains "does not exist".
C4_AbsentUnmatchedNoOp ==
    \A p \in Procs :
        (Reconciled(p) /\ params[p].state = "absent" /\ Matching(p) = {}) =>
            /\ Mutations(p) = <<>>
            /\ Unchanged(p)
            /\ "message" \in DOMAIN outcome[p].data
            /\ \E k \in 1..Len(outcome[p].data.message) :
                  outcome[p].data.message[k] = " does not exist"
            /\ inv = before[p]

C4_WitnessEmpty ==
    \E p \in Procs :
        /\ Reconciled(p) /\ params[p].state = "absent" /\ Matching(p) = {}
        /\ Snapshot(p) = <<>> /\ Unchanged(p)

C4_Witness ==
    \E p \in Procs :
        /\ Reconciled(p) /\ params[p].state = "absent" /\ Matching(p) = {}
        /\ Len(Snapshot(p)) > 1 /\ Unchanged(p)

\* C5: present-and-matched is a no-op regardless of attribute drift.  When the
\* desired state is present and a snapshot entry carries the declared identity,
\* the call issues no mutating call and returns changed=false, whatever the
\* other attributes of the entry and of the declaration are.
C5_PresentMatchedNoOp ==
    \A p \in Procs :
        (Reconciled(p) /\ params[p].state = "present" /\ Matching(p) # {}) =>
            /\ Mutations(p) = <<>>
            /\ Unchanged(p)
            /\ inv = before[p]

\* reached with a matching entry whose attributes differ from the declared ones
C5_Witness ==
    \E p \in Procs :
        /\ Reconciled(p) /\ params[p].state = "present"
        /\ \E i \in Matching(p) : Snapshot(p)[i].attr # params[p].variant
        /\ Unchanged(p)

\* the status the spec expects of a mutating call
ExpectedStatus(method) == IF method = "POST" THEN 201 ELSE 200

\* C6: when a create or delete returns a status outside its expected success
\* class (create: anything but 201, delete: anything but 200), the call ends in
\* a failure, does not report changed=true, and is not retried.
C6_MutationFailureIsFatal ==
    \A p \in Procs :
        (/\ Done(p) /\ params[p].type \in Kinds
         /\ Len(Mutations(p)) >= 1
         /\ mresponse[p].status_code # ExpectedStatus(Mutations(p)[1].method)) =>
            /\ outcome[p].result = "fail"
            /\ Len(Mutations(p)) = 1

\* C7: when the fetch returns any status other than exactly 200 (other 2xx
\* codes included), the call ends in failure carrying the remote diagnostic
\* information, performs no identity matching, issues no create or delete,
\* does not repeat the fetch, and leaves the remote inventory unchanged.
C7_FetchStatusFatal ==
    \A p \in Procs :
        (Done(p) /\ response[p].status_code # 200) =>
            /\ outcome[p].result = "fail"
            /\ "info" \in DOMAIN outcome[p].msg
            /\ outcome[p].msg.info = [status |-> response[p].status_code,
                                      body |-> response[p].json]
            /\ element[p] = NoElement
            /\ calls[p] = <<Request("GET", CollectionPath(params[p].type))>>
            /\ inv = before[p]

\* a 2xx status that is not 200 ended the call
C7_Witness ==
    \E p \in Procs :
        /\ Done(p) /\ response[p].status_code = 201
        /\ "items" \in DOMAIN response[p].json /\ Len(response[p].json.items) > 0
        /\ outcome[p].result = "fail"

IdentityUnset(P) ==
    IF P.type = "templates"
    THEN ~Subscriptable(P.design_template) \/ P.design_template.display_name = PyNone
    ELSE P[IdentityKey(P.type)] = PyNone

\* C9: when the declared resource has no value for an identity key of its kind,
\* the call fails with an identity error before any remote call is made: no
\* fetch, no create and no delete is issued.
C9_IdentityErrorBeforeRemoteCall ==
    \A p \in Procs :
        (pc[p] # "idle" /\ params[p].type \in Kinds /\ IdentityUnset(params[p])) =>
            /\ calls[p] = <<>>
            /\ Done(p) => outcome[p].result = "fail"

\* C10: a snapshot entry that lacks the identity field of the kind is a
\* non-match: the scan goes on and the call never fails on that account; the
\* two no-op branches (not found + absent, found + present) end as successful
\* outcomes for every snapshot.
C10_MissingFieldIsNonMatch ==
    \A p \in Procs :
        (/\ Done(p) /\ KindCall(p) /\ HasSnapshot(p) /\ ~IdentityUnset(params[p])
         /\ \/ params[p].state = "absent" /\ Matching(p) = {}
            \/ params[p].state = "present" /\ Matching(p) # {}) =>
            /\ Unchanged(p)
            /\ Mutations(p) = <<>>
\* the position of the last snapshot entry that carries the declared identity
LastMatch(p) == CHOOSE i \in Matching(p) : \A j \in Matching(p) : j <= i

\* C11: last match wins.  When several snapshot entries carry the declared
\* identity, the call is not an error and works on the last of them in
\* snapshot order: absent deletes the id of the last matching entry, present
\* reports the last matching entry as the record found.
C11_LastMatchWins ==
    \A p \in Procs :
        (Reconciled(p) /\ Matching(p) # {}) =>
            /\ outcome[p].result = "exit"
            /\ element[p].provisioned = TRUE
            /\ element[p].id = Snapshot(p)[LastMatch(p)].id
            /\ params[p].state = "absent" =>
                   Mutations(p) = <<Request("DELETE",
                                            Append(CollectionPath(params[p].type),
                                                   Snapshot(p)[LastMatch(p)].id))>>
            /\ params[p].state = "present" =>
                   /\ "element" \in DOMAIN outcome[p].data
                   /\ outcome[p].data.element.id = Snapshot(p)[LastMatch(p)].id

\* an earlier entry carries the declared identity too and the last one was deleted
C11_Witness ==
    \E p \in Procs :
        /\ Reconciled(p) /\ Cardinality(Matching(p)) >= 2
        /\ \E i \in Matching(p) : i < LastMatch(p) /\ Snapshot(p)[i].id # Snapshot(p)[LastMatch(p)].id
        /\ params[p].state = "absent"
        /\ Len(Mutations(p)) = 1
        /\ ~HasId(inv[params[p].type], Snapshot(p)[LastMatch(p)].id)
\* the create-contract fields a remote template entry holds: its display_name
\* and the other fields as a declaration of the entry's attributes gives them
TemplateFieldsOf(entry) ==
    templates_data([design_template |-> DesignTemplate(entry.display_name, entry.attr)])

\* the snapshot entries that agree with the declared template on every field
\* under design_template
FullyAgreeing(p) ==
    {i \in 1..Len(Snapshot(p)) : TemplateFieldsOf(Snapshot(p)[i]) = templates_data(params[p])}

\* the snapshot entries whose display_name is design_template.display_name
SameDisplayName(p) ==
    {i \in 1..Len(Snapshot(p)) :
        Snapshot(p)[i].display_name = params[p].design_template.display_name}

TemplateCall(p) == Reconciled(p) /\ params[p].type = "templates"

SpecIdentityKey(type) ==
    IF type \in {"interface-maps", "rack-types", "blueprints"} THEN "label"
    ELSE "display_name"

SpecDeclaredIdentity(P) ==
    IF P.type = "templates" THEN P.design_template.display_name
    ELSE P[SpecIdentityKey(P.type)]

\* the positions of the snapshot entries that carry the declared identity under
\* the key the specification gives the kind
SpecMatching(p) ==
    {i \in 1..Len(Snapshot(p)) :
        /\ SpecIdentityKey(params[p].type) \in DOMAIN Snapshot(p)[i]
        /\ Snapshot(p)[i][SpecIdentityKey(params[p].type)] = SpecDeclaredIdentity(params[p])}

\* every entry of the snapshot carries id, display_name and label
FullEntries(p) ==
    \A i \in 1..Len(Snapshot(p)) : {"id", "display_name", "label"} \subseteq DOMAIN Snapshot(p)[i]

\* C13: identity keys per kind.  Pools, logical devices and external routers
\* are matched on display_name, interface maps and rack types on label,
\* templates on design_template.display_name: the scan finds a match exactly
\* when a snapshot entry carries the declared value under that key.  For a rack
\* type an entry with the declared label matches and one with another label
\* does not, whatever its id.
C13_IdentityKeysPerKind ==
    \A p \in Procs :
        (Done(p) /\ KindCall(p) /\ HasSnapshot(p) /\ FullEntries(p)) =>
            /\ "provisioned" \in DOMAIN element[p]
            /\ element[p].provisioned = (SpecMatching(p) # {})
\* the create a completed call issued
Created(p) == Mutations(p)[1]

IssuedCreate(p) == Done(p) /\ Len(Mutations(p)) = 1 /\ Mutations(p)[1].method = "POST"

\* C14: subnet transform.  For IP and IPv6 pools the subnets of the create
\* payload is a list as long as the declared list whose i-th element is the
\* single-key record {network: i-th declared string}: order kept, nothing
\* dropped, merged or duplicated.
C14_SubnetTransform ==
    \A p \in Procs :
        (IssuedCreate(p) /\ params[p].type \in {"ip-pools", "ipv6-pools"}) =>
            /\ Len(Created(p).data.subnets) = Len(params[p].subnets)
            /\ \A i \in 1..Len(params[p].subnets) :
                  /\ DOMAIN Created(p).data.subnets[i] = {"network"}
                  /\ Created(p).data.subnets[i].network = params[p].subnets[i]

\* the two subnets of the spec's example went through an IPv6 pool create
C14_Witness ==
    \E p \in Procs :
        /\ IssuedCreate(p) /\ params[p].type = "ipv6-pools"
        /\ params[p].subnets = <<"10.0.0.0/24", "10.0.1.0/24">>
        /\ Created(p).data.subnets = <<[network |-> "10.0.0.0/24"], [network |-> "10.0.1.0/24"]>>

\* C15: end to end.  An IP pool task with display_name "cicd_test", subnets
\* ["100.1.1.0/24"], no tags and state present, on the empty snapshot, issues
\* exactly one create to resources/ip-pools whose payload is exactly
\* {display_name: "cicd_test", subnets: [{network: "100.1.1.0/24"}], tags: []},
\* and returns changed=true when the remote answers the create with 201 and
\* the new id.
EndToEndTask(p) ==
    /\ Done(p) /\ HasSnapshot(p) /\ Snapshot(p) = <<>>
    /\ params[p].type = "ip-pools" /\ params[p].state = "present"
    /\ params[p].display_name = "cicd_test"
    /\ params[p].subnets = <<"100.1.1.0/24">>
    /\ params[p].tags = UndeclaredTags

RangePools == {"asn-pools", "vlan-pools", "vni-pools"}

\* C16: for ASN, VLAN and VNI pools the ranges of the create payload is the
\* declared list of {first, last} records unchanged, same elements in the same
\* order, and the payload consists of exactly display_name, ranges and tags.
C16_RangesPassThrough ==
    \A p \in Procs :
        (IssuedCreate(p) /\ params[p].type \in RangePools) =>
            /\ DOMAIN Created(p).data = {"display_name", "ranges", "tags"}
            /\ Created(p).data.ranges = params[p].ranges
            /\ Created(p).data.display_name = params[p].display_name
            /\ Created(p).data.tags = params[p].tags

\* an ASN pool was created from two declared ranges
C16_Witness ==
    \E p \in Procs :
        /\ IssuedCreate(p) /\ params[p].type = "asn-pools"
        /\ Len(params[p].ranges) = 2
        /\ Created(p).data.ranges = <<[first |-> 65300, last |-> 65399],
                                      [first |-> 65500, last |-> 65599]>>

C16_WitnessVni ==
    \E p \in Procs :
        IssuedCreate(p) /\ params[p].type = "vni-pools" /\ Len(Created(p).data.ranges) = 1

TemplateContract ==
    {"asn_allocation_policy", "dhcp_service_intent", "display_name",
     "external_routing_policy", "fabric_addressing_policy", "rack_type_counts",
     "rack_types", "spine", "type", "virtual_network_policy"}

RackTypeContract ==
    {"access_switches", "description", "display_name", "id", "leafs",
     "logical_devices", "servers"}

\* C17: for templates and rack types the create payload carries each field of
\* the create contract with exactly the declared value and no other field: the
\* ten design_template fields for a template; access_switches, description,
\* display_name, id, leafs, logical_devices and servers for a rack type, the
\* declared label, state and type being stripped.
C17_ContractFieldsOnly ==
    \A p \in Procs :
        /\ (IssuedCreate(p) /\ params[p].type = "templates") =>
               /\ DOMAIN Created(p).data = TemplateContract
               /\ \A f \in TemplateContract :
                     Created(p).data[f] = params[p].design_template[f]
        /\ (IssuedCreate(p) /\ params[p].type = "rack-types") =>
               /\ DOMAIN Created(p).data = RackTypeContract
               /\ \A f \in RackTypeContract : Created(p).data[f] = params[p][f]

\* a template was created from a design_template that holds more than the
\* contract's fields
C17_Witness ==
    \E p \in Procs :
        /\ IssuedCreate(p) /\ params[p].type = "templates"
        /\ DOMAIN params[p].design_template # TemplateContract
        /\ TemplateContract \subseteq DOMAIN params[p].design_template

C17_WitnessRackType ==
    \E p \in Procs :
        /\ IssuedCreate(p) /\ params[p].type = "rack-types"
        /\ params[p].label # PyNone
        /\ "label" \notin DOMAIN Created(p).data
\* two completed calls for the same kind and the same declared identity, each
\* on a snapshot of well-formed entries
SameResource(p, q) ==
    /\ p # q /\ Reconciled(p) /\ Reconciled(q)
    /\ params[p].type = params[q].type
    /\ DeclaredIdentity(params[p]) = DeclaredIdentity(params[q])

\* the entries of the remote collection that carry the identity p declares
RemoteCopies(p) ==
    {i \in 1..Len(inv[params[p].type]) :
        /\ IdentityKey(params[p].type) \in DOMAIN inv[params[p].type][i]
        /\ inv[params[p].type][i][IdentityKey(params[p].type)] = DeclaredIdentity(params[p])}

Answered(p, status) == mresponse[p].status_code = status

\* both calls wanted the resource present and neither snapshot held it
BothUnmatched(p, q) ==
    /\ SameResource(p, q)
    /\ params[p].state = "present" /\ params[q].state = "present"
    /\ Matching(p) = {} /\ Matching(q) = {}

\* C18: concurrent create race.  Nothing in the engine (lock, version,
\* conditional create) keeps two present calls for the same kind and the same
\* unmatched identity apart: whenever both observed no match, both issued a
\* create, and when the remote answered both with 201 and an id both returned
\* changed=true and the remote holds two entries of that identity.
C18_ConcurrentCreateRace ==
    \A p, q \in Procs :
        BothUnmatched(p, q) =>
            /\ IssuedCreate(p) /\ IssuedCreate(q)
            /\ (/\ Answered(p, 201) /\ "id" \in DOMAIN mresponse[p].json
                /\ Answered(q, 201) /\ "id" \in DOMAIN mresponse[q].json) =>
                   /\ Changed(p) /\ Changed(q)
                   /\ Cardinality(RemoteCopies(p)) >= 2

\* the race: both calls fetched before either created, both returned
\* changed=true, and the collection that held no entry of the identity holds two
C18_Witness ==
    \E p, q \in Procs :
        /\ BothUnmatched(p, q)
        /\ params[p].type = "ip-pools"
        /\ before[p] = before[q]
        /\ Changed(p) /\ Changed(q)
        /\ Cardinality(RemoteCopies(p)) = 2
        /\ mresponse[p].json.id # mresponse[q].json.id

\* p wanted the resource present, q absent, and both snapshots held it
PresentAndAbsent(p, q) ==
    /\ SameResource(p, q)
    /\ params[p].state = "present" /\ params[q].state = "absent"
    /\ Matching(p) # {} /\ Matching(q) # {}

\* C19: concurrent present/absent race.  Nothing keeps an absent call from
\* deleting the entry a concurrent present call accepts: whenever both saw the
\* entry, the present call returned changed=false without error and the absent
\* call issued its delete and returned changed=true; when the remote answered
\* the delete with 200 the entry the present call reported is gone.
C19_PresentAbsentRace ==
    \A p, q \in Procs :
        PresentAndAbsent(p, q) =>
            /\ Unchanged(p) /\ Mutations(p) = <<>>
            /\ Mutations(q) = <<Request("DELETE", Append(CollectionPath(params[q].type),
                                                          element[q].id))>>
            /\ Changed(q)
            /\ Answered(q, 200) => ~HasId(inv[params[q].type], element[q].id)

\* the race: the present call reported the entry as found, and the remote
\* holds no entry of that identity any more
C19_Witness ==
    \E p, q \in Procs :
        /\ PresentAndAbsent(p, q)
        /\ params[p].type = "logical-devices"
        /\ Unchanged(p) /\ outcome[p].data.element.id = element[q].id
        /\ Changed(q) /\ Answered(q, 200)
        /\ RemoteCopies(p) = {}
\* no two entries of the collection share a value under the key
UniqueUnder(I, key) ==
    \A i, j \in 1..Len(I) :
        (i # j /\ key \in DOMAIN I[i] /\ key \in DOMAIN I[j]) => I[i][key] # I[j][key]

\* every call of the play so far was successful
AllSucceeded == \A p \in Procs : pc[p] = "idle" \/ (Done(p) /\ outcome[p].result = "exit")

\* C20: uniqueness under sequential use.  Starting from collections in which
\* no two entries of a kind share an identity value, after any sequence of
\* successful calls, one after the other, no two entries of a kind share an
\* identity value (display_name; label for interface maps and rack types).
C20_UniqueIdentities ==
    AllSucceeded =>
        \A type \in Kinds : UniqueUnder(inv[type], SpecIdentityKey(type))

\* the same under the key each kind function compares, id for rack types:
\* holds of every play
UniqueUnderComparedKeys ==
    AllSucceeded =>
        \A type \in Kinds : UniqueUnder(inv[type], IdentityKey(type))

\* and under the specification's keys for every kind but rack types
UniqueButRackTypes ==
    AllSucceeded =>
        \A type \in Kinds \ {"rack-types"} : UniqueUnder(inv[type], SpecIdentityKey(type))
\* the remote did what the call asked of it, if the call asked anything: it
\* answered the create with 201, the delete with 200
Performed(p) ==
    \/ Mutations(p) = <<>>
    \/ Mutations(p)[1].method = "POST" /\ mresponse[p].status_code = 201
    \/ Mutations(p)[1].method = "DELETE" /\ mresponse[p].status_code = 200

\* the first and the second task of a play declared the same resource and
\* the same desired state, both ended by exit_json, and the remote did what
\* the first asked
Repeated(state) ==
    /\ Done("p1") /\ Done("p2")
    /\ Performed("p1")
    /\ outcome["p1"].result = "exit" /\ outcome["p2"].result = "exit"
    /\ KindCall("p1") /\ KindCall("p2")
    /\ params["p1"].type = params["p2"].type
    /\ SpecDeclaredIdentity(params["p1"]) = SpecDeclaredIdentity(params["p2"])
    /\ params["p1"].state = state /\ params["p2"].state = state

\* C21: no cross-call state.  Each call of a sequence fetches the collection
\* afresh and decides on the remote inventory at its own fetch and on its
\* declaration alone.  So present repeated for the same identity returns
\* changed=true at most once, the first time, and changed=false with no
\* mutating call afterwards; absent repeated on a uniquely named resource
\* returns changed=true once and then changed=false.
C21_NoCrossCallState ==
    /\ \A p \in Procs :
          (Done(p) /\ HasSnapshot(p)) => Snapshot(p) = before[p][params[p].type]
    /\ Repeated("present") => (Unchanged("p2") /\ Mutations("p2") = <<>>)
    /\ Repeated("absent") => (Unchanged("p2") /\ Mutations("p2") = <<>>)
\* C22: call ordering within one call.  Exactly one fetch of the kind's
\* collection is issued and it comes first; a create or delete is issued only
\* after a fetch that returned 200; the outcome is reported only after the
\* mutating call, if any, returned; a call makes at most two remote calls.
C22_CallOrdering ==
    \A p \in Procs :
        /\ pc[p] = "idle" => (calls[p] = <<>> /\ outcome[p] = NoOutcome)
        /\ pc[p] = "fetched" =>
               /\ calls[p] = <<Request("GET", CollectionPath(params[p].type))>>
               /\ outcome[p] = NoOutcome /\ mresponse[p] = NoResponse
        /\ Done(p) =>
               /\ outcome[p] # NoOutcome
               /\ Len(calls[p]) \in {1, 2}
               /\ calls[p][1] = Request("GET", CollectionPath(params[p].type))
               /\ Len(Fetches(p)) = 1
               /\ Len(calls[p]) = 2 =>
                      /\ IsMutation(calls[p][2])
                      /\ response[p].status_code = 200
                      /\ mresponse[p] # NoResponse

\* a call made its two remote calls: the fetch, then the delete
C22_Witness ==
    \E p \in Procs :
        /\ Done(p) /\ params[p].type \in Kinds
        /\ Len(calls[p]) = 2
        /\ calls[p][1].method = "GET" /\ calls[p][2].method = "DELETE"
        /\ outcome[p].result = "exit"

\* C23: reported data.  On create and on delete the data of the outcome is
\* the body of the remote response of that call; on the present-and-matched
\* no-op it is the matched record, with the remote id of the matched entry;
\* on the absent-and-unmatched no-op it is a message.  So a present task reads
\* from data the id of an entry that carries the declared identity, whether the
\* entry was just created (and the remote answered with its id) or was there.
C23_ReportedData ==
    \A p \in Procs :
        (Reconciled(p) /\ ~IdentityUnset(params[p]) /\ outcome[p].result = "exit") =>
            /\ Len(Mutations(p)) = 1 => outcome[p].data = [response |-> mresponse[p].json]
            /\ (Mutations(p) = <<>> /\ params[p].state = "absent") =>
                   DOMAIN outcome[p].data = {"message"}
            /\ (Mutations(p) = <<>> /\ params[p].state = "present") =>
                   /\ DOMAIN outcome[p].data = {"element"}
                   /\ \E i \in Matching(p) : outcome[p].data.element.id = Snapshot(p)[i].id
            /\ (/\ IssuedCreate(p)
                /\ Answered(p, 201) /\ "id" \in DOMAIN mresponse[p].json) =>
                   \E i \in RemoteCopies(p) :
                       inv[params[p].type][i].id = outcome[p].data.response.id

\* a present task found its entry among others and reported the entry's id
C23_Witness ==
    \E p \in Procs :
        /\ Reconciled(p) /\ params[p].state = "present" /\ Unchanged(p)
        /\ Len(Snapshot(p)) >= 2 /\ Cardinality(Matching(p)) = 1
        /\ outcome[p].data.element.id = Snapshot(p)[LastMatch(p)].id
        /\ outcome[p].data.element.id # Snapshot(p)[1].id

C23_WitnessCreated ==
    \E p \in Procs :
        /\ Reconciled(p) /\ IssuedCreate(p) /\ Changed(p)
        /\ "id" \in DOMAIN outcome[p].data.response
        /\ \E i \in RemoteCopies(p) : inv[params[p].type][i].id = outcome[p].data.response.id
\* the position of the first snapshot entry that carries the declared identity
FirstMatch(p) == CHOOSE i \in Matching(p) : \A j \in Matching(p) : i <= j

\* the keys of the dict a kind function fills, besides 'provisioned'
KindFields(type) ==
    IF type = "rack-types" THEN {"id"}
    ELSE IF type \in {"interface-maps", "blueprints"} THEN {"id", "label"}
    ELSE {"display_name", "id"}

\* C24 as stated: first match wins.  The match result is the first entry in
\* snapshot order whose identity equals the declared one; later entries with
\* the same identity do not change it.
C24_FirstMatchWins ==
    \A p \in Procs :
        (Reconciled(p) /\ Matching(p) # {}) =>
            element[p].id = Snapshot(p)[FirstMatch(p)].id

\* C24 amended: the scan is linear over the whole snapshot and the match
\* result is the last entry in snapshot order whose identity equals the
\* declared one: the record of that entry, whatever entries came before it;
\* with no such entry the result is the record of no match.
C24_ScanKeepsLastMatch ==
    \A p \in Procs :
        Reconciled(p) =>
            element[p] = IF Matching(p) = {}
                         THEN EmptyElement(KindFields(params[p].type))
                         ELSE MatchedElement(Snapshot(p)[LastMatch(p)],
                                             KindFields(params[p].type))

\* the first and the last entry of the identity differ and the call took the last
C24_Witness ==
    \E p \in Procs :
        /\ Reconciled(p) /\ Matching(p) # {}
        /\ FirstMatch(p) # LastMatch(p)
        /\ params[p].state = "present" /\ Unchanged(p)
        /\ element[p].id = Snapshot(p)[LastMatch(p)].id
        /\ element[p].id # Snapshot(p)[FirstMatch(p)].id
\* the snapshot entries whose identity is the declared one but for letter
\* case, surrounding whitespace or type
LookAlikes(p) ==
    {i \in 1..Len(Snapshot(p)) :
        /\ Snapshot(p)[i][IdentityKey(params[p].type)] # DeclaredIdentity(params[p])
        /\ Normalized(Snapshot(p)[i][IdentityKey(params[p].type)])
               = Normalized(DeclaredIdentity(params[p]))}

\* the collection holds every entry of the snapshot still
KeepsSnapshot(p) ==
    \A i \in 1..Len(Snapshot(p)) :
        \E j \in 1..Len(inv[params[p].type]) : inv[params[p].type][j] = Snapshot(p)[i]

\* C25: the identity comparison is exact equality, with no normalization.  An
\* entry whose identity differs from the declared one in letter case, in
\* surrounding whitespace or in type only is a non-match: present creates a
\* new entry next to it, absent does not delete it.
C25_ExactEquality ==
    \A p \in Procs :
        (Reconciled(p) /\ Matching(p) = {} /\ LookAlikes(p) # {}) =>
            /\ element[p].provisioned = FALSE
            /\ params[p].state = "present" => (IssuedCreate(p) /\ KeepsSnapshot(p))
            /\ params[p].state = "absent" =>
                   (Mutations(p) = <<>> /\ Unchanged(p) /\ inv = before[p])

\* "n1" was declared present next to the entries "N1" and " n1", and created
C25_Witness ==
    \E p \in Procs :
        /\ Reconciled(p) /\ params[p].type = "ip-pools" /\ params[p].state = "present"
        /\ DeclaredIdentity(params[p]) = "n1"
        /\ Cardinality(LookAlikes(p)) = 2
        /\ IssuedCreate(p) /\ Changed(p)
        /\ Len(inv["ip-pools"]) = 3

\* the rack type of id '1' was declared absent and the entry of id 1 was kept
C25_WitnessType ==
    \E p \in Procs :
        /\ Reconciled(p) /\ params[p].type = "rack-types" /\ params[p].state = "absent"
        /\ DeclaredIdentity(params[p]) = "1"
        /\ \E i \in LookAlikes(p) : Snapshot(p)[i].id = "<int 1>"
        /\ Unchanged(p) /\ inv = before[p]

---------------------------------------------------------------------------
(* One result per call *)

Reported(p) == outcome[p] # NoOutcome

\* core's trailing exit_json(changed=False, data=resources)
TrailingExit(p) ==
    /\ outcome[p].result = "exit"
    /\ "resources" \in DOMAIN outcome[p].data

\* C26: every call terminates and reports exactly one result, an outcome
\* {changed, data} or a failure.  Once a branch has reported, no later
\* statement of the call runs: the report, the calls sent and the remote
\* collections stay as they are; for a recognised kind core's trailing
\* exit_json(changed=False, data=resources) is never what the call reports,
\* and a create or delete is never reported with changed=false.
C26_OneResult ==
    /\ <>Done("p1")
    /\ [](\A p \in Procs : Done(p) <=> Reported(p))
    /\ [](\A p \in Procs : Reported(p) => outcome[p].result \in {"exit", "fail"})
    /\ [][\A p \in Procs : Reported(p) =>
              /\ outcome'[p] = outcome[p]
              /\ calls'[p] = calls[p]
              /\ pc'[p] = "done"]_vars
    /\ [](\A p \in Procs : (Done(p) /\ params[p].type \in Kinds) => ~TrailingExit(p))
    /\ [](\A p \in Procs : (Done(p) /\ Mutations(p) # <<>>) => ~Unchanged(p))

\* a call of a recognised kind created its entry and reported it once, with
\* changed=true and the create's answer as data
C26_Witness ==
    /\ Done("p1") /\ params["p1"].type \in Kinds
    /\ IssuedCreate("p1") /\ Changed("p1")
    /\ outcome["p1"].data = [response |-> mresponse["p1"].json]
    /\ ~TrailingExit("p1")

\* a call of an unrecognised type is the one that ends by the trailing exit
C26_WitnessTrailing ==
    /\ Done("p1") /\ params["p1"].type \notin Kinds
    /\ TrailingExit("p1") /\ Unchanged("p1")

---------------------------------------------------------------------------
(* changed and the mutations of a call *)

\* the kinds whose function reads response.json['id'] after the post
IdReadingKinds ==
    {"ip-pools", "ipv6-pools", "asn-pools", "vlan-pools", "vni-pools",
     "external-routers", "logical-devices"}

Failed(p) == outcome[p].result = "fail"

\* C27 as stated: changed=true exactly when the call issued a create or a
\* delete, and a call that failed after a successful fetch issued no mutation
C27_FailureMeansNoMutation ==
    \A p \in Procs :
        Done(p) =>
            /\ Changed(p) <=> Mutations(p) # <<>>
            /\ (Failed(p) /\ FetchAccepted(response[p].status_code)) => Mutations(p) = <<>>

\* C27: changed reflects mutation in every call that ends with an outcome:
\* changed=true if and only if the call issued a create or a delete.  A call
\* that ends in failure after a successful fetch has issued no mutating call,
\* except a create of a kind that reads the id of the create's answer, when
\* that answer carries no id: the call then fails by KeyError after its post.
C27_ChangedReflectsMutation ==
    \A p \in Procs :
        Done(p) =>
            /\ outcome[p].result = "exit" => (outcome[p].changed <=> Mutations(p) # <<>>)
            /\ (Failed(p) /\ Mutations(p) # <<>>) =>
                   /\ params[p].type \in IdReadingKinds
                   /\ Len(Mutations(p)) = 1 /\ Mutations(p)[1].method = "POST"
                   /\ "id" \notin DOMAIN mresponse[p].json
                   /\ outcome[p] = Raised("KeyError")
            /\ (Failed(p) /\ Mutations(p) = <<>>) => inv = before[p]

\* a create of an IP pool was refused with a body without id: the call has
\* failed after its post
C27_Witness ==
    /\ Done("p1") /\ Failed("p1") /\ params["p1"].type = "ip-pools"
    /\ IssuedCreate("p1") /\ Answered("p1", 422)
    /\ FetchAccepted(response["p1"].status_code)

\* a delete was issued and reported with changed=true
C27_WitnessDelete ==
    /\ Done("p1") /\ Changed("p1")
    /\ Len(Mutations("p1")) = 1 /\ Mutations("p1")[1].method = "DELETE"

---------------------------------------------------------------------------
(* A create answered without an id *)

\* the call issued a create and the body of its answer names no id
CreatedWithoutId(p) ==
    /\ Done(p) /\ KindCall(p) /\ IssuedCreate(p)
    /\ "id" \notin DOMAIN mresponse[p].json

\* the entries a call's create has added to the collection are still there:
\* the collection is the one the call started from plus what the post left
PostKept(p) ==
    LET type == params[p].type IN
    /\ \A t \in AllTypes \ {type} : inv[t] = before[p][t]
    /\ IF Answered(p, 201)
       THEN /\ Len(inv[type]) = Len(before[p][type]) + 1
            /\ SubSeq(inv[type], 1, Len(before[p][type])) = before[p][type]
            /\ inv[type][Len(inv[type])].display_name = PayloadName(Created(p).data)
       ELSE inv[type] = before[p][type]

\* C28: a create response without an id.  For ip-pools, ipv6-pools, asn-pools,
\* vlan-pools, vni-pools, external-routers and logical-devices the call ends
\* in failure although the create was already issued: the entry the remote
\* created stays, no further call is sent.  For interface-maps, rack-types,
\* templates and blueprints the same response yields changed=true with that
\* body as data.
C28_CreateWithoutId ==
    \A p \in Procs :
        CreatedWithoutId(p) =>
            /\ Len(calls[p]) = 2
            /\ params[p].type \in IdReadingKinds =>
                   (outcome[p] = Raised("KeyError") /\ PostKept(p))
            /\ params[p].type \in Kinds \ IdReadingKinds =>
                   outcome[p] = ExitJson(TRUE, [response |-> mresponse[p].json])

\* a logical device was created, the answer named no id, the call has failed
\* and the new entry is in the collection
C28_Witness ==
    /\ CreatedWithoutId("p1") /\ params["p1"].type = "logical-devices"
    /\ Answered("p1", 201) /\ Failed("p1")
    /\ Len(inv["logical-devices"]) = Len(before["p1"]["logical-devices"]) + 1

\* a template was created, the answer named no id, the call reports changed
C28_WitnessPlain ==
    /\ CreatedWithoutId("p1") /\ params["p1"].type = "templates"
    /\ Answered("p1", 201) /\ Changed("p1")
    /\ outcome["p1"].data = [response |-> [shape |-> "dict"]]

---------------------------------------------------------------------------
(* Duplicates and repeated absent tasks *)

\* the tasks of the play that ended by exit_json so far, the running process's
\* included once it has reported
History ==
    recap \o (IF Done("p1") /\ outcome["p1"].result = "exit"
              THEN <<TaskRecord("p1")>> ELSE <<>>)

\* the tasks of the play for one collection
TasksOf(type) == SelectSeq(History, LAMBDA c : c.params.type = type)

\* the collections the play started from
Start == IF recap # <<>> THEN recap[1].before ELSE before["p1"]

\* the positions of the entries of a collection that carry a name
Holding(items, type, name) ==
    {i \in 1..Len(items) : items[i][IdentityKey(type)] = name}

RemoveAt(items, i) == SubSeq(items, 1, i - 1) \o SubSeq(items, i + 1, Len(items))

Last(S) == CHOOSE i \in S : \A j \in S : j <= i

\* the remote did every delete the tasks sent
DeletesPerformed(H) ==
    \A i \in 1..Len(H) :
        SelectSeq(H[i].calls, IsMutation) # <<>> => H[i].mresponse.status_code = 200

\* C29: duplicates are removed one per call.  When k >= 2 entries carry the
\* declared identity, an absent task deletes only the last of them in
\* snapshot order and leaves the other k-1 in place; of a sequence of absent
\* tasks, run one after the other, exactly the first k return changed=true,
\* and from the (k+1)-th on they return changed=false, with no entry of that
\* identity left.  Stated for deletes the remote performs.
C29_OneDuplicatePerCall ==
    \A type \in {"ip-pools", "interface-maps"} :
        LET H == TasksOf(type)
            k == Cardinality(Holding(Start[type], type, "n1"))
        IN  DeletesPerformed(H) =>
              /\ \A i \in 1..Len(H) : H[i].outcome.changed = (i <= k)
              /\ \A i \in 1..Len(H) :
                    LET held == Holding(H[i].before[type], type, "n1")
                        sent == SelectSeq(H[i].calls, IsMutation)
                    IN  IF held # {}
                        THEN /\ sent = <<Request("DELETE",
                                            DeletePath(type, H[i].before[type][Last(held)].id))>>
                             /\ H[i].after[type] = RemoveAt(H[i].before[type], Last(held))
                             /\ Holding(H[i].after[type], type, "n1") = held \ {Last(held)}
                        ELSE sent = <<>> /\ H[i].after[type] = H[i].before[type]
              /\ Len(H) >= k => Holding(inv[type], type, "n1") = {}
              /\ Len(H) < k => Cardinality(Holding(inv[type], type, "n1")) = k - Len(H)

\* three pools were named n1: three absent tasks returned changed=true, the
\* fourth returned changed=false and no pool of that name is left
C29_Witness ==
    LET H == TasksOf("ip-pools") IN
    /\ Cardinality(Holding(Start["ip-pools"], "ip-pools", "n1")) = 3
    /\ Len(H) = 4 /\ DeletesPerformed(H)
    /\ \A i \in 1..3 : H[i].outcome.changed = TRUE
    /\ H[4].outcome.changed = FALSE
    /\ inv["ip-pools"] = <<>>

\* two interface maps were labelled n1, between entries of another label: the
\* first absent task deleted the later one and left the earlier one in place
C29_WitnessLast ==
    LET H == TasksOf("interface-maps") IN
    /\ Len(H) >= 1 /\ DeletesPerformed(H)
    /\ Holding(H[1].before["interface-maps"], "interface-maps", "n1") = {1, 3}
    /\ Holding(H[1].after["interface-maps"], "interface-maps", "n1") = {1}
    /\ Len(H[1].after["interface-maps"]) = 2

---------------------------------------------------------------------------
(* The frame of a call *)

\* the collections a call's requests are routed to
Touched(p) == {RouteOf(calls[p][i].path) : i \in 1..Len(calls[p])}

\* C30: the frame of a call for kind K.  Every request of the call goes to
\* K's collection, and every other collection is as it was when the call
\* began.  Within K the call adds at most one entry, after the ones that were
\* there, or removes the one matched entry; every other entry is unchanged
\* and keeps its place, and on present-and-matched so is the matched entry.
C30_Frame ==
    \A p \in Procs :
        (Done(p) /\ KindCall(p)) =>
            LET K == params[p].type
                B == before[p][K]
                A == inv[K]
                sent == Mutations(p)
            IN  /\ Touched(p) = {K}
                /\ \A t \in AllTypes \ {K} : inv[t] = before[p][t]
                /\ sent = <<>> => A = B
                /\ (sent # <<>> /\ sent[1].method = "POST") =>
                       /\ Len(sent) = 1
                       /\ \/ A = B
                          \/ Len(A) = Len(B) + 1 /\ SubSeq(A, 1, Len(B)) = B
                /\ (sent # <<>> /\ sent[1].method = "DELETE") =>
                       /\ Len(sent) = 1
                       /\ element[p].provisioned = TRUE
                       /\ \/ A = B
                          \/ /\ Len(A) = Len(B) - 1
                             /\ A = RemoveId(B, element[p].id)
                /\ ("provisioned" \in DOMAIN element[p] /\ element[p].provisioned = TRUE
                       /\ params[p].state = "present") => (sent = <<>> /\ A = B)

\* a pool was deleted from a collection of three: the two others are where
\* they were, the one of another name included, and so is every other collection
C30_Witness ==
    /\ Done("p1") /\ params["p1"].type = "vlan-pools"
    /\ Len(Mutations("p1")) = 1 /\ Mutations("p1")[1].method = "DELETE"
    /\ Len(before["p1"]["vlan-pools"]) = 3 /\ Len(inv["vlan-pools"]) = 2
    /\ \E i \in 1..2 : inv["vlan-pools"][i].display_name # params["p1"].display_name
    /\ inv["ip-pools"] = before["p1"]["ip-pools"] /\ Len(inv["ip-pools"]) = 3

\* present and matched on an entry whose attributes differ from the declared
\* ones: the entry is unchanged
C30_WitnessMatched ==
    /\ Reconciled("p1") /\ params["p1"].type = "asn-pools"
    /\ params["p1"].state = "present" /\ params["p1"].variant # InitialAttr
    /\ element["p1"].provisioned = TRUE
    /\ inv = before["p1"] /\ Mutations("p1") = <<>>

---------------------------------------------------------------------------
(* Present, then absent *)

\* the first task of the play declared a resource present that no entry of
\* the collection carried, the second declared the same resource absent; both
\* got a snapshot and the remote did what they asked
PresentThenAbsent ==
    /\ Done("p1") /\ Done("p2")
    /\ KindCall("p1") /\ params["p1"].state = "present"
    /\ SpecDeclaredIdentity(params["p1"]) # PyNone
    /\ params["p2"] = [params["p1"] EXCEPT !.state = "absent"]
    /\ HasSnapshot("p1") /\ HasSnapshot("p2")
    /\ SpecMatching("p1") = {}
    /\ Performed("p1") /\ Performed("p2")

\* the round trip of the two tasks: one create, one delete of the entry just
\* created, changed=true twice, every collection as before
RoundTripDone ==
    LET type == params["p1"].type
        B1 == before["p1"][type]
        B2 == before["p2"][type]
    IN  /\ IssuedCreate("p1") /\ Changed("p1")
        /\ Len(B2) = Len(B1) + 1
        /\ Mutations("p2") = <<Request("DELETE", DeletePath(type, B2[Len(B2)].id))>>
        /\ Changed("p2")
        /\ inv = before["p1"]

\* C31: round trip.  From a collection with no entry of the declared
\* identity, present followed by absent for the same kind and identity issues
\* one create, then one delete of the entry just created; both return
\* changed=true and every collection is as it was before the two calls.
C31_RoundTrip == PresentThenAbsent => RoundTripDone

\* the round trip for the kinds matched on the key the specification names
C31_RoundTripButRackTypes ==
    (PresentThenAbsent /\ params["p1"].type # "rack-types") => RoundTripDone

\* a pool went the round trip
C31_Reached ==
    PresentThenAbsent /\ params["p1"].type = "ip-pools" /\ RoundTripDone

---------------------------------------------------------------------------
(* Two absent calls at once *)

\* both calls wanted the resource absent and both snapshots held it, under
\* the same remote id
BothMatchedAbsent(p, q) ==
    /\ SameResource(p, q)
    /\ params[p].state = "absent" /\ params[q].state = "absent"
    /\ Matching(p) # {} /\ Matching(q) # {}
    /\ element[p].id = element[q].id

\* C32: concurrent double delete.  Nothing keeps two absent calls for the
\* same resource from both deleting it: whenever both matched the same remote
\* id in their snapshots, both issued a delete to that id and both returned
\* changed=true, whatever the remote answered; at most one of the deletes
\* removed the entry.
C32_ConcurrentDoubleDelete ==
    \A p, q \in Procs :
        BothMatchedAbsent(p, q) =>
            /\ Mutations(p) = <<Request("DELETE", DeletePath(params[p].type, element[p].id))>>
            /\ Mutations(q) = Mutations(p)
            /\ Changed(p) /\ Changed(q)
            /\ outcome[q].data = [response |-> mresponse[q].json]
            /\ ~(Answered(p, 200) /\ Answered(q, 200))
            /\ Len(inv[params[p].type]) >= Len(before[p][params[p].type]) - 1

\* the race: one pool named n1, two absent calls, both report changed=true;
\* the first delete was answered 200, the second 404, one entry was removed
C32_Witness ==
    \E p, q \in Procs :
        /\ BothMatchedAbsent(p, q) /\ params[p].type = "ip-pools"
        /\ Len(before[p]["ip-pools"]) = 1 /\ before[q] = before[p]
        /\ Changed(p) /\ Changed(q)
        /\ Answered(p, 200) /\ Answered(q, 404)
        /\ inv["ip-pools"] = <<>>

---------------------------------------------------------------------------
(* A type no branch of core takes *)

\* the call declared a type its module does not dispatch on, and the fetch
\* of that path was answered 200
UnrecognisedFetched(p) ==
    /\ Done(p)
    /\ params[p].type \in UnknownResourceTypes \cup UnknownDesignTypes
    /\ response[p].status_code = 200

C33_WitnessDesign ==
    /\ UnrecognisedFetched("p1") /\ params["p1"].type = "config-templates"
    /\ params["p1"].state = "present" /\ HasSnapshot("p1") /\ Len(Snapshot("p1")) = 2
    /\ Unchanged("p1") /\ outcome["p1"].data.resources.items = inv["config-templates"]

---------------------------------------------------------------------------
(* Blueprints *)

\* the positions of the snapshot entries labelled as the task declares
LabelMatches(p) == {i \in 1..Len(Snapshot(p)) : Snapshot(p)[i].label = params[p].label}

\* C34: blueprints follow the four-branch table of every other kind.  The
\* collection `blueprints` is fetched and its entries are matched on label;
\* absent and matched deletes blueprints/{id}; present and unmatched posts
\* exactly {design, init_type, template_id, label} to `blueprints`; the two
\* other branches issue no mutating call and return changed=false.
C34_BlueprintTable ==
    \A p \in Procs :
        (Reconciled(p) /\ params[p].type = "blueprints") =>
            LET P == params[p]
                matched == LabelMatches(p) # {}
                sent == Mutations(p)
            IN  /\ calls[p][1] = Request("GET", <<"blueprints">>)
                /\ element[p].provisioned = matched
                /\ (P.state = "absent" /\ matched) =>
                       /\ sent = <<Request("DELETE",
                                     <<"blueprints", Snapshot(p)[Last(LabelMatches(p))].id>>)>>
                       /\ Changed(p)
                /\ (P.state = "present" /\ ~matched) =>
                       /\ Len(sent) = 1
                       /\ sent[1].method = "POST" /\ sent[1].path = <<"blueprints">>
                       /\ DOMAIN sent[1].data = {"design", "init_type", "template_id", "label"}
                       /\ sent[1].data = [design |-> P.design, init_type |-> P.init_type,
                                          template_id |-> P.template_id, label |-> P.label]
                       /\ Changed(p)
                /\ (P.state = "absent" /\ ~matched) =>
                       (sent = <<>> /\ Unchanged(p) /\ DOMAIN outcome[p].data = {"message"})
                /\ (P.state = "present" /\ matched) =>
                       (sent = <<>> /\ Unchanged(p) /\ outcome[p].data = [element |-> element[p]])

\* a blueprint labelled n2 was declared present next to one labelled n1 and
\* was posted
C34_Witness ==
    /\ Reconciled("p1") /\ params["p1"].type = "blueprints"
    /\ params["p1"].state = "present" /\ params["p1"].label = "n2"
    /\ Len(Snapshot("p1")) = 1 /\ Snapshot("p1")[1].label = "n1"
    /\ IssuedCreate("p1") /\ Created("p1").path = <<"blueprints">>
    /\ Created("p1").data.label = "n2"
    /\ Changed("p1")

\* a blueprint labelled n1 was declared absent and its id deleted
C34_WitnessDelete ==
    /\ Reconciled("p1") /\ params["p1"].type = "blueprints"
    /\ params["p1"].state = "absent" /\ LabelMatches("p1") = {2}
    /\ Mutations("p1") = <<Request("DELETE", <<"blueprints", "i2">>)>>
    /\ Changed("p1")

---------------------------------------------------------------------------
(* Two calls on the same input *)

\* two completed calls that were given the same declaration and the same
\* answer to their fetch, status and body
SameInput(p, q) ==
    /\ p # q /\ Done(p) /\ Done(q)
    /\ params[p] = params[q]
    /\ response[p] = response[q]

C35_WitnessOutcome ==
    \E p, q \in Procs :
        /\ SameInput(p, q) /\ params[p].type = "logical-devices"
        /\ params[p].state = "absent"
        /\ Mutations(p) # <<>> /\ Mutations(p) = Mutations(q)
        /\ Answered(p, 500) /\ mresponse[p] = mresponse[q]
        /\ outcome[p] = outcome[q] /\ Changed(p)
============================================================================
